---- MODULE Spec2Model ----
(***************************************************************************)
(* Model of the Markdown -> Lexical converter of ghosty-posty              *)
(* (src/main.ts, parseMarkdownToMobiledoc and its helpers).                *)
(*                                                                         *)
(* Strings are sequences of one-character strings.  Indices follow the     *)
(* source: they are 0-based, slice(text, a, b) is text[a..b-1].            *)
(***************************************************************************)
EXTENDS Integers, Sequences, FiniteSets, TLC

\* ---------------------------------------------------------------- strings

\* String.prototype.slice(start, end) for 0 <= start, end.
slice(text, start, end) == SubSeq(text, start + 1, end)

\* text[i] (0-based).
charAt(text, i) == text[i + 1]

\* The characters \s matches, among those the inputs use.
WhiteSpace == {" ", "\t", "\n"}

\* The characters \d matches.
Digits == {"0", "1", "2", "3", "4", "5", "6", "7", "8", "9"}

\* The character U+0060 (grave accent), written by name.
backtick == "U+0060"

\* The value of an absent capture group and of an omitted argument.
undefined == <<"undefined">>

\* Smallest index i >= from with text[i] = c, or -1 (String.prototype.indexOf).
indexOf(text, c, from) ==
    LET S == {i \in from..(Len(text) - 1) : charAt(text, i) = c}
    IN  IF S = {} THEN -1 ELSE CHOOSE i \in S : \A j \in S : i <= j

\* Smallest index i >= from whose character is not in the set cs, or Len(text).
skipWhile(text, cs, from) ==
    LET S == {i \in from..(Len(text) - 1) : charAt(text, i) \notin cs}
    IN  IF S = {} THEN Len(text) ELSE CHOOSE i \in S : \A j \in S : i <= j

\* String.prototype.trim().
trim(text) ==
    LET S == {i \in 0..(Len(text) - 1) : charAt(text, i) \notin WhiteSpace}
    IN  IF S = {} THEN <<>>
        ELSE slice(text, CHOOSE i \in S : \A j \in S : i <= j,
                         (CHOOSE i \in S : \A j \in S : i >= j) + 1)

\* String.prototype.startsWith for a one-character prefix.
startsWith(text, c) == Len(text) >= 1 /\ charAt(text, 0) = c

RECURSIVE splitFrom(_, _, _)
\* String.prototype.split(sep) applied to text from the index from on.
splitFrom(text, sep, from) ==
    LET n == Len(sep)
        S == {i \in from..(Len(text) - n) : slice(text, i, i + n) = sep}
    IN  IF S = {} THEN <<slice(text, from, Len(text))>>
        ELSE LET i == CHOOSE k \in S : \A j \in S : k <= j
             IN  <<slice(text, from, i)>> \o splitFrom(text, sep, i + n)

split(text, sep) == splitFrom(text, sep, 0)

\* ---------------------------------------------------------------- regexes
\* A match is [found, index, length, g1, g2]; index is 0-based.

noMatch == [found |-> FALSE]

\* /\[([^\]]+)\]\(([^)]+)\)/ anchored at index i.
linkMatchAt(text, i) ==
    LET j == indexOf(text, "]", i + 1)
        k == IF j = -1 THEN -1 ELSE indexOf(text, ")", j + 2)
    IN  IF /\ charAt(text, i) = "["
           /\ j >= i + 2
           /\ j + 1 < Len(text)
           /\ charAt(text, j + 1) = "("
           /\ k >= j + 3
        THEN [found |-> TRUE, index |-> i, length |-> k + 1 - i,
              g1 |-> slice(text, i + 1, j), g2 |-> slice(text, j + 2, k)]
        ELSE noMatch

\* /\*\*([^*]+)\*\*|__([^_]+)__/ anchored at index i, for the delimiter d.
boldAltAt(text, i, d) ==
    LET j == indexOf(text, d, i + 2)
    IN  /\ i + 1 < Len(text)
        /\ charAt(text, i) = d
        /\ charAt(text, i + 1) = d
        /\ j >= i + 3
        /\ j + 1 < Len(text)
        /\ charAt(text, j + 1) = d

boldMatchAt(text, i) ==
    IF boldAltAt(text, i, "*")
    THEN LET j == indexOf(text, "*", i + 2)
         IN  [found |-> TRUE, index |-> i, length |-> j + 2 - i,
              g1 |-> slice(text, i + 2, j), g2 |-> undefined]
    ELSE IF boldAltAt(text, i, "_")
    THEN LET j == indexOf(text, "_", i + 2)
         IN  [found |-> TRUE, index |-> i, length |-> j + 2 - i,
              g1 |-> undefined, g2 |-> slice(text, i + 2, j)]
    ELSE noMatch

\* The characters of the lookahead (?=$|\s|[.,!?;)]).
ItalicFollow == WhiteSpace \cup {".", ",", "!", "?", ";", ")"}

\* /(?:^|\s|\()\*([^*]+)\*(?=$|\s|[.,!?;)])/ anchored at index i.
\* g2 is not a group of the regex: it carries fullMatch.indexOf('*').
italicMatchAt(text, i) ==
    LET s == IF i = 0 /\ charAt(text, i) = "*" THEN i
             ELSE IF /\ charAt(text, i) \in WhiteSpace \cup {"("}
                     /\ i + 1 < Len(text)
                     /\ charAt(text, i + 1) = "*" THEN i + 1
             ELSE -1
        j == IF s = -1 THEN -1 ELSE indexOf(text, "*", s + 1)
    IN  IF /\ s # -1
           /\ j >= s + 2
           /\ (j + 1 = Len(text) \/ charAt(text, j + 1) \in ItalicFollow)
        THEN [found |-> TRUE, index |-> i, length |-> j + 1 - i,
              g1 |-> slice(text, s + 1, j), g2 |-> s - i]
        ELSE noMatch

\* RegExp.prototype.exec of a /g regex: the leftmost match at or after lastIndex.
linkExec(text, lastIndex) ==
    LET S == {i \in lastIndex..(Len(text) - 1) : linkMatchAt(text, i).found}
    IN  IF S = {} THEN noMatch
        ELSE linkMatchAt(text, CHOOSE i \in S : \A j \in S : i <= j)

boldExec(text, lastIndex) ==
    LET S == {i \in lastIndex..(Len(text) - 1) : boldMatchAt(text, i).found}
    IN  IF S = {} THEN noMatch
        ELSE boldMatchAt(text, CHOOSE i \in S : \A j \in S : i <= j)

italicExec(text, lastIndex) ==
    LET S == {i \in lastIndex..(Len(text) - 1) : italicMatchAt(text, i).found}
    IN  IF S = {} THEN noMatch
        ELSE italicMatchAt(text, CHOOSE i \in S : \A j \in S : i <= j)

\* ---------------------------------------------------------------- nodes

createTextNode(text, format) ==
    [type |-> "extended-text", detail |-> 0, format |-> format,
     mode |-> "normal", style |-> "", text |-> text, version |-> 1]

createParagraphNode(children) ==
    [type |-> "paragraph", children |-> children, direction |-> "ltr",
     format |-> 0, indent |-> 0, version |-> 1]

createListNode(listItems, listType) ==
    [type |-> "list", listType |-> listType, start |-> 1,
     children |-> listItems, direction |-> "ltr", format |-> 0,
     indent |-> 0, version |-> 1]

createListItemNode(children) ==
    [type |-> "listitem", children |-> children, direction |-> "ltr",
     format |-> 0, indent |-> 0, value |-> 1, version |-> 1]

createLinkNode(url, linkText) ==
    [type |-> "link", url |-> url, children |-> <<createTextNode(linkText, 0)>>,
     direction |-> "ltr", format |-> 0, indent |-> 0, version |-> 1]

createHorizontalRuleNode == [type |-> "horizontalrule", version |-> 1]

createHeadingNode(level, children) ==
    [type |-> "heading", tag |-> <<"h", level>>, children |-> children,
     direction |-> "ltr", format |-> 0, indent |-> 0, version |-> 1]

createQuoteNode(children) ==
    [type |-> "quote", children |-> <<createParagraphNode(children)>>,
     direction |-> "ltr", format |-> 0, indent |-> 0, version |-> 1]

createImageNode(alt, src) ==
    [type |-> "image", src |-> src, altText |-> alt, width |-> undefined,
     height |-> undefined, maxWidth |-> "100%", showCaption |-> FALSE,
     caption |-> undefined, direction |-> "ltr", format |-> 0, indent |-> 0,
     version |-> 1]

createRootNode(children) ==
    [type |-> "root", children |-> children, direction |-> "ltr",
     format |-> 0, indent |-> 0, version |-> 1]

\* ------------------------------------------------------- processItalicText
\* The loop state is [nodes, lastIndex]; the regex keeps its own lastIndex.

\* One iteration of the while loop, for the match m.
italicBody(text, st, m) ==
    LET before == IF m.index + m.g2 > st.lastIndex
                  THEN <<createTextNode(
                             slice(text, st.lastIndex, m.index + m.g2), 0)>>
                  ELSE <<>>
    IN  [nodes     |-> st.nodes \o before \o <<createTextNode(m.g1, 2)>>,
         lastIndex |-> m.index + m.length]

\* The code after the loop: the remaining text, then the return value.
italicReturn(text, st) ==
    LET nodes == IF st.lastIndex < Len(text)
                 THEN Append(st.nodes,
                             createTextNode(slice(text, st.lastIndex, Len(text)), 0))
                 ELSE st.nodes
    IN  IF Len(nodes) > 0 THEN nodes ELSE <<createTextNode(text, 0)>>

RECURSIVE italicLoop(_, _, _)
italicLoop(text, st, regexLastIndex) ==
    LET m == italicExec(text, regexLastIndex)
    IN  IF m.found
        THEN italicLoop(text, italicBody(text, st, m), m.index + m.length)
        ELSE italicReturn(text, st)

processItalicText(text) == italicLoop(text, [nodes |-> <<>>, lastIndex |-> 0], 0)

\* --------------------------------------------------- processTextWithMarkup

\* The iteration without its test "match.index > lastIndex".
linkBody_alwaysBefore(text, st, m) ==
    [nodes     |-> st.nodes
                   \o <<createTextNode(slice(text, st.lastIndex, m.index), 0)>>
                   \o <<createLinkNode(m.g2, m.g1)>>,
     lastIndex |-> m.index + m.length]

\* One iteration of the link loop, for the match m; st is [nodes, lastIndex].
linkBody(text, st, m) ==
    LET before == IF m.index > st.lastIndex
                  THEN <<createTextNode(slice(text, st.lastIndex, m.index), 0)>>
                  ELSE <<>>
    IN  [nodes     |-> st.nodes \o before \o <<createLinkNode(m.g2, m.g1)>>,
         lastIndex |-> m.index + m.length]

RECURSIVE linkLoop(_, _, _)
linkLoop(text, st, regexLastIndex) ==
    LET m == linkExec(text, regexLastIndex)
    IN  IF m.found
        THEN linkLoop(text, linkBody(text, st, m), m.index + m.length)
        ELSE st

\* The text node of a bold match: const [fullMatch, content] = boldMatch.
boldNode(m) == createTextNode(m.g1, 1)

\* One iteration of the bold loop; st is [nodes, boldLastIndex].
boldBody(remainingText, st, m) ==
    LET before == IF m.index > st.boldLastIndex
                  THEN processItalicText(
                           slice(remainingText, st.boldLastIndex, m.index))
                  ELSE <<>>
    IN  [nodes         |-> st.nodes \o before \o <<boldNode(m)>>,
         boldLastIndex |-> m.index + m.length]

RECURSIVE boldLoop(_, _, _)
boldLoop(remainingText, st, regexLastIndex) ==
    LET m == boldExec(remainingText, regexLastIndex)
    IN  IF m.found
        THEN boldLoop(remainingText, boldBody(remainingText, st, m),
                      m.index + m.length)
        ELSE st

\* The text the bold and italic scans run on: what follows the last link.
remainingOf(text, lastIndex) == slice(text, lastIndex, Len(text))

\* "Add remaining text": bold, then italic, on the text after the last link.
processRemaining(text, nodes, lastIndex) ==
    IF lastIndex < Len(text)
    THEN LET remainingText == remainingOf(text, lastIndex)
             b == boldLoop(remainingText,
                           [nodes |-> nodes, boldLastIndex |-> 0], 0)
         IN  IF b.boldLastIndex < Len(remainingText)
             THEN b.nodes \o processItalicText(
                      slice(remainingText, b.boldLastIndex, Len(remainingText)))
             ELSE b.nodes
    ELSE nodes

processTextWithMarkup(text) ==
    LET l == linkLoop(text, [nodes |-> <<>>, lastIndex |-> 0], 0)
    IN  processRemaining(text, l.nodes, l.lastIndex)

\* -------------------------------------------------------- line classifiers

\* /^[-*]\s+(.+)$/ on a trimmed line; g1 is the item text.
bulletListMatch(trimmedLine) ==
    LET j == skipWhile(trimmedLine, WhiteSpace, 1)
    IN  IF /\ Len(trimmedLine) >= 1
           /\ charAt(trimmedLine, 0) \in {"-", "*"}
           /\ j >= 2
           /\ j < Len(trimmedLine)
        THEN [found |-> TRUE, g1 |-> slice(trimmedLine, j, Len(trimmedLine))]
        ELSE noMatch

\* /^(\d+)\.\s+(.+)$/ on a trimmed line; g2 is the item text.
numberListMatch(trimmedLine) ==
    LET d == skipWhile(trimmedLine, Digits, 0)
        j == skipWhile(trimmedLine, WhiteSpace, d + 1)
    IN  IF /\ d >= 1
           /\ d < Len(trimmedLine)
           /\ charAt(trimmedLine, d) = "."
           /\ j >= d + 2
           /\ j < Len(trimmedLine)
        THEN [found |-> TRUE, g1 |-> slice(trimmedLine, 0, d),
              g2 |-> slice(trimmedLine, j, Len(trimmedLine))]
        ELSE noMatch

\* trimmedLine === '---'
isHorizontalRule(trimmedLine) == trimmedLine = <<"-", "-", "-">>

\* The pattern with #+ in place of #{1,6}.
headingMatch_anyLevel(trimmedLine) ==
    LET h == skipWhile(trimmedLine, {"#"}, 0)
        j == skipWhile(trimmedLine, WhiteSpace, h)
    IN  IF /\ h >= 1
           /\ j >= h + 1
           /\ j < Len(trimmedLine)
        THEN [found |-> TRUE, g1 |-> slice(trimmedLine, 0, h),
              g2 |-> slice(trimmedLine, j, Len(trimmedLine))]
        ELSE noMatch

\* /^(#{1,6})\s+(.+)$/m on a trimmed line (a line holds no line terminator).
headingMatch(trimmedLine) ==
    LET h == skipWhile(trimmedLine, {"#"}, 0)
        j == skipWhile(trimmedLine, WhiteSpace, h)
    IN  IF /\ h >= 1
           /\ h <= 6
           /\ j >= h + 1
           /\ j < Len(trimmedLine)
        THEN [found |-> TRUE, g1 |-> slice(trimmedLine, 0, h),
              g2 |-> slice(trimmedLine, j, Len(trimmedLine))]
        ELSE noMatch

\* /^!\[(.*?)\]\((.*?)\)$/ on a trimmed line: the first "](" ends the alt text.
imageMatch(trimmedLine) ==
    LET n == Len(trimmedLine)
        S == {p \in 2..(n - 3) : /\ charAt(trimmedLine, p) = "]"
                                 /\ charAt(trimmedLine, p + 1) = "("}
    IN  IF /\ n >= 5
           /\ charAt(trimmedLine, 0) = "!"
           /\ charAt(trimmedLine, 1) = "["
           /\ charAt(trimmedLine, n - 1) = ")"
           /\ S # {}
        THEN LET p == CHOOSE q \in S : \A r \in S : q <= r
             IN  [found |-> TRUE, g1 |-> slice(trimmedLine, 2, p),
                  g2 |-> slice(trimmedLine, p + 2, n - 1)]
        ELSE noMatch

\* ------------------------------------------------------------------ JSON

\* JSON.stringify of a text node: a property whose value is undefined is left out.
stringifyText(n) ==
    IF n.text = undefined THEN [k \in DOMAIN n \ {"text"} |-> n[k]] ELSE n

stringifyInline(n) ==
    IF n.type = "link"
    THEN [n EXCEPT !.children =
              [i \in 1..Len(n.children) |-> stringifyText(n.children[i])]]
    ELSE stringifyText(n)

stringifyParagraph(n) ==
    [n EXCEPT !.children =
         [i \in 1..Len(n.children) |-> stringifyInline(n.children[i])]]

stringifyListItem(n) ==
    [n EXCEPT !.children =
         [i \in 1..Len(n.children) |-> stringifyParagraph(n.children[i])]]

stringifyBlock(n) ==
    CASE n.type \in {"paragraph", "heading"} -> stringifyParagraph(n)
      [] n.type = "quote" -> stringifyListItem(n)
      [] n.type = "list" ->
             [n EXCEPT !.children =
                  [i \in 1..Len(n.children) |-> stringifyListItem(n.children[i])]]
      [] n.type = "image" ->
             [k \in DOMAIN n \ {"width", "height", "caption"} |-> n[k]]
      [] OTHER -> n

\* JSON.stringify({ root }).
stringify(root) ==
    [root |-> [root EXCEPT !.children =
                   [i \in 1..Len(root.children) |-> stringifyBlock(root.children[i])]]]

\* ---------------------------------------------------------------- inputs

\* The longest document, in lines.
MaxLines == 3

\* The longest text handed to the resolver, in pieces.
MaxPieces == 3

\* Lines that drive the list state: bullets, an ordered item, a paragraph,
\* a rule and a blank line.
CoreLines ==
    {<<"-", " ", "a">>,
    <<"*", " ", "b">>,
    <<"1", ".", " ", "c">>,
    <<"p">>,
    <<"-", "-", "-">>,
    <<" ">>}

\* Lines that exercise the other classifiers.
ExtraLines ==
    {<<"-", "-", "-", "-">>,
    <<"-", "-", "-", "-", "-">>,
    <<"#", " ", "h">>,
    <<">", " ", "q">>,
    <<">">>,
    <<"!", "[", "i", "]", "(", "s", ")">>,
    <<"x", "!", "[", "i", "]", "(", "s", ")">>,
    <<"x", " ", "!", "[", "i", "]", "(", "s", ")">>,
    <<" ", "-", " ", "a", " ">>,
    <<"!", "[", "i", "]", "(", ")">>,
    <<">", "!", "[", "i", "]", "(", "s", ")">>,
    <<"#", "#", " ", "*", "*", "b", "*", "*">>,
    <<"#", "#", "#", "#", "#", "#", " ", "h">>,
    <<"#", "#", "#", "#", "#", "#", "#", " ", "h">>,
    <<"#", "h">>,
    <<"-", " ", "#", " ", "h">>}

\* The separators between lines: a newline, or a blank-line block boundary.
Separators == {<<"\n">>, <<"\n", "\n">>}

RECURSIVE CoreDocuments(_)
\* The documents of 1..n core lines.
CoreDocuments(n) ==
    IF n = 1 THEN CoreLines
    ELSE CoreDocuments(n - 1) \cup
         {d \o sep \o l : d \in CoreDocuments(n - 1), sep \in Separators,
                          l \in CoreLines}

\* An extra line alone, or with a core line before or after it.
ExtraDocuments ==
    LET before == {<<>>} \cup {l \o sep : l \in CoreLines, sep \in Separators}
        after  == {<<>>} \cup {sep \o l : l \in CoreLines, sep \in Separators}
    IN  {b \o e \o a : b \in before, e \in ExtraLines, a \in after}

Documents == {<<>>} \cup CoreDocuments(MaxLines) \cup ExtraDocuments

\* The pieces the resolver's texts are made of.
Pieces ==
    {<<"a">>,
    <<" ">>,
    <<"*", "*", "b", "*", "*">>,
    <<"*", "c", "*">>,
    <<"_", "_", "d", "_", "_">>,
    <<backtick, "e", backtick>>,
    <<"[", "f", "]", "(", "u", ")">>,
    <<"[", "*", "*", "g", "*", "*", "]", "(", "u", ")">>,
    <<"!", "[", "i", "]", "(", "s", ")">>,
    <<".">>}

RECURSIVE Concatenations(_)
Concatenations(n) ==
    IF n = 0 THEN {<<>>}
    ELSE Concatenations(n - 1) \cup
         {t \o p : t \in Concatenations(n - 1), p \in Pieces}

\* Every caller passes a trimmed text (a list item's, a heading's or a quote's
\* text, or a trimmed line); a quote's text may be empty.
Texts == {t \in Concatenations(MaxPieces) : trim(t) = t}

\* ----------------------------------------------------------------- state

\* currentListItems is null, or holds the item array.
null == <<>>
some(x) == <<x>>
get(opt) == opt[1]

VARIABLES
    pc,                \* where the run is
    content,           \* parseMarkdownToMobiledoc's argument
    paragraphBlocks,   \* the non-blank blocks of content
    blockIndex,        \* position of the outer forEach
    lineIndex,         \* position of the inner forEach
    rootChildren,
    currentListItems,
    currentListType,
    result,            \* the value returned
    text,              \* processTextWithMarkup's argument
    nodes,
    lastIndex,
    linkRegex,         \* linkRegex.lastIndex
    remainingText,
    boldLastIndex,
    boldRegex,         \* boldRegex.lastIndex
    boldMatch,         \* the bold match being handled
    italic,            \* the frame of the running processItalicText call
    ret,               \* where that call returns to
    calls,             \* two calls side by side: each call's argument and loops
    scans,             \* the scan state these calls work on
    note,              \* the content of the note in the editor
    frontMatter,       \* parseFrontMatter's result
    markdownContent,
    initialOptions,    \* the options the preview modal opens with
    imagePaths,        \* processImageLinks: the paths of the embedded images
    imageMap,          \* the Ghost URLs of the images uploaded so far
    upload,            \* position of the loop over imagePaths, upload in flight
    title,             \* publishCurrentNote's title
    processedContent,
    modal,             \* the PublishPreviewModal: open, title, currentOptions
    submitted,         \* the options onSubmit has been called with
    settings,          \* this.settings: ghostUrl, apiKey
    window,            \* window.require is there
    call,              \* publishToGhost's arguments
    postData,
    requests,          \* the network requests sent, in order
    response,          \* what the primary request came back with
    outcome,           \* what publishToGhost's promise settled with
    nodeCalls          \* the calls of publishWithNode

segmenterVars == <<content, paragraphBlocks, blockIndex, lineIndex, rootChildren,
                   currentListItems, currentListType, result>>
resolverVars == <<text, nodes, lastIndex, linkRegex, remainingText,
                  boldLastIndex, boldRegex, boldMatch, italic, ret>>
pairVars == <<calls, scans>>
uploadVars == <<imagePaths, imageMap, upload>>
modalVars == <<title, processedContent, modal, submitted>>
publishVars == <<settings, window, call, postData, requests, response, outcome,
                 nodeCalls>>
noteVars == <<note, frontMatter, markdownContent, initialOptions,
              uploadVars, modalVars, publishVars>>
vars == <<pc, segmenterVars, resolverVars, pairVars, noteVars>>

\* No front matter parsed yet, no options built yet.
noFrontMatter == [status |-> <<>>]
noOptions == [status |-> <<>>]

\* No image found, no upload running.
noUpload ==
    /\ imagePaths = <<>>
    /\ imageMap = <<>>
    /\ upload = [index |-> 0, inFlight |-> FALSE, started |-> 0]

\* No modal constructed.
noModal ==
    /\ title = <<>>
    /\ processedContent = <<>>
    /\ modal = [open |-> FALSE]
    /\ submitted = <<>>

\* publishToGhost not called.
noPublish ==
    /\ call = null
    /\ postData = null
    /\ requests = <<>>
    /\ response = null
    /\ outcome = null
    /\ nodeCalls = 0

\* Nothing configured.
noSettings ==
    /\ settings = [ghostUrl |-> <<>>, apiKey |-> <<>>]
    /\ window = [require |-> FALSE]

noFrame == [text |-> <<>>, nodes |-> <<>>, lastIndex |-> 0, regexLastIndex |-> 0]

\* A call of parseMarkdownToMobiledoc(content), or a call of
\* processTextWithMarkup(text) on its own.
Init ==
    /\ pc \in {"start", "link"}
    /\ content \in (IF pc = "start" THEN Documents ELSE {<<>>})
    /\ paragraphBlocks = <<>>
    /\ blockIndex = 0
    /\ lineIndex = 0
    /\ rootChildren = <<>>
    /\ currentListItems = null
    /\ currentListType = "null"
    /\ result = [root |-> [type |-> "none"]]
    /\ text \in (IF pc = "link" THEN Texts ELSE {<<>>})
    /\ nodes = <<>>
    /\ lastIndex = 0
    /\ linkRegex = 0
    /\ remainingText = <<>>
    /\ boldLastIndex = 0
    /\ boldRegex = 0
    /\ boldMatch = noMatch
    /\ italic = noFrame
    /\ ret = "none"
    /\ calls = <<>>
    /\ scans = <<>>
    /\ note = <<>>
    /\ frontMatter = noFrontMatter
    /\ markdownContent = <<>>
    /\ initialOptions = noOptions
    /\ noUpload
    /\ noModal
    /\ noPublish
    /\ noSettings

\* ------------------------------------------------- parseMarkdownToMobiledoc

\* content.split('\n\n').filter(p => p.trim())
blocksOf(c) == SelectSeq(split(c, <<"\n", "\n">>), LAMBDA p : trim(p) # <<>>)

\* block.split('\n').filter(line => line.trim())
linesOf(block) == SelectSeq(split(block, <<"\n">>), LAMBDA l : trim(l) # <<>>)

\* const trimmedLine = line.trim(), for the line the loops stand at.
trimmedLine == trim(linesOf(paragraphBlocks[blockIndex + 1])[lineIndex + 1])

Start ==
    /\ pc = "start"
    /\ paragraphBlocks' = blocksOf(content)
    /\ pc' = IF blocksOf(content) = <<>> THEN "final" ELSE "line"
    /\ UNCHANGED <<content, blockIndex, lineIndex, rootChildren,
                   currentListItems, currentListType, result, resolverVars,
                   pairVars, noteVars>>

\* The two forEach loops move on to the next line, or end.
advance ==
    IF lineIndex + 1 < Len(linesOf(paragraphBlocks[blockIndex + 1]))
    THEN /\ lineIndex' = lineIndex + 1
         /\ blockIndex' = blockIndex
         /\ pc' = "line"
    ELSE /\ lineIndex' = 0
         /\ blockIndex' = blockIndex + 1
         /\ pc' = IF blockIndex + 1 < Len(paragraphBlocks) THEN "line" ELSE "final"

isListLine(line) == bulletListMatch(line).found \/ numberListMatch(line).found

listTextOf(line) ==
    IF bulletListMatch(line).found THEN bulletListMatch(line).g1
    ELSE numberListMatch(line).g2

listTypeOf(line) == IF bulletListMatch(line).found THEN "bullet" ELSE "number"

\* The test always true: every list item opens a list.
startsNewList_always(items, type, listType) == TRUE

\* The test without its comparison of the list types.
startsNewList_sameKind(items, type, listType) == items = null

\* if (!currentListItems || currentListType !== listType)
startsNewList(items, type, listType) == items = null \/ type # listType

\* The branch without its push of the list of the other kind.
rootAfterListStart_noPush(root, items, type, listType) == root

\* The list branch up to "Start a new list": the root's children afterwards.
rootAfterListStart(root, items, type, listType) ==
    IF startsNewList(items, type, listType) /\ items # null
    THEN Append(root, createListNode(get(items), type))
    ELSE root

\* The branch without "currentListItems = []".
itemsAfterListStart_noArray(items, type, listType) == items

\* The list branch up to "Start a new list": currentListItems afterwards.
itemsAfterListStart(items, type, listType) ==
    IF startsNewList(items, type, listType) THEN some(<<>>) ELSE items

createListItemOf(listText) ==
    createListItemNode(<<createParagraphNode(processTextWithMarkup(listText))>>)

\* A list item line.  Pushing to a null currentListItems would raise.
ListItemLine ==
    /\ pc = "line"
    /\ isListLine(trimmedLine)
    /\ LET listText == listTextOf(trimmedLine)
           listType == listTypeOf(trimmedLine)
           items    == itemsAfterListStart(currentListItems, currentListType,
                                           listType)
       IN  /\ rootChildren' = rootAfterListStart(rootChildren, currentListItems,
                                                 currentListType, listType)
           /\ currentListType' =
                  IF startsNewList(currentListItems, currentListType, listType)
                  THEN listType ELSE currentListType
           /\ IF items = null
              THEN /\ currentListItems' = items
                   /\ pc' = "raised"
                   /\ UNCHANGED <<blockIndex, lineIndex>>
              ELSE /\ currentListItems' =
                          some(Append(get(items), createListItemOf(listText)))
                   /\ advance
    /\ UNCHANGED <<content, paragraphBlocks, result, resolverVars, pairVars,
                   noteVars>>

\* The branch without its push of the open list.
closeCurrentList_noPush(root, items, type) == root

\* "If this line isn't a list item but we have a current list": the root's
\* children afterwards.
closeCurrentList(root, items, type) ==
    IF items # null THEN Append(root, createListNode(get(items), type)) ELSE root

\* A line that is no list item appends one block, after closing the open list.
appendBlock(block) ==
    /\ rootChildren' = Append(closeCurrentList(rootChildren, currentListItems,
                                               currentListType), block)
    /\ currentListItems' = null
    /\ currentListType' = "null"
    /\ advance
    /\ UNCHANGED <<content, paragraphBlocks, result, resolverVars, pairVars,
                   noteVars>>

HorizontalRuleLine ==
    /\ pc = "line"
    /\ ~isListLine(trimmedLine)
    /\ isHorizontalRule(trimmedLine)
    /\ appendBlock(createHorizontalRuleNode)

headingOf(line) ==
    createHeadingNode(Len(headingMatch(line).g1),
                      processTextWithMarkup(trim(headingMatch(line).g2)))

HeadingLine ==
    /\ pc = "line"
    /\ ~isListLine(trimmedLine)
    /\ ~isHorizontalRule(trimmedLine)
    /\ headingMatch(trimmedLine).found
    /\ appendBlock(headingOf(trimmedLine))

\* trimmedLine.substring(1).trim() run through the resolver.
quoteOf(line) ==
    createQuoteNode(processTextWithMarkup(trim(slice(line, 1, Len(line)))))

QuoteLine ==
    /\ pc = "line"
    /\ ~isListLine(trimmedLine)
    /\ ~isHorizontalRule(trimmedLine)
    /\ ~headingMatch(trimmedLine).found
    /\ startsWith(trimmedLine, ">")
    /\ appendBlock(quoteOf(trimmedLine))

imageOf(line) == createImageNode(imageMatch(line).g1, imageMatch(line).g2)

ImageLine ==
    /\ pc = "line"
    /\ ~isListLine(trimmedLine)
    /\ ~isHorizontalRule(trimmedLine)
    /\ ~headingMatch(trimmedLine).found
    /\ ~startsWith(trimmedLine, ">")
    /\ imageMatch(trimmedLine).found
    /\ appendBlock(imageOf(trimmedLine))

paragraphOf(line) == createParagraphNode(processTextWithMarkup(line))

ParagraphLine ==
    /\ pc = "line"
    /\ ~isListLine(trimmedLine)
    /\ ~isHorizontalRule(trimmedLine)
    /\ ~headingMatch(trimmedLine).found
    /\ ~startsWith(trimmedLine, ">")
    /\ ~imageMatch(trimmedLine).found
    /\ appendBlock(paragraphOf(trimmedLine))

\* The final step without its test of currentListItems.
finalChildren_always(root, items, type) ==
    Append(root, createListNode(IF items # null THEN get(items) ELSE <<>>, type))

\* "If we have any remaining list items at the end, add them": the final
\* children of the root.
finalChildren(root, items, type) ==
    IF items # null THEN Append(root, createListNode(get(items), type)) ELSE root

\* After the loops: close the open list, build the root, serialize.
Finish ==
    /\ pc = "final"
    /\ rootChildren' = finalChildren(rootChildren, currentListItems,
                                     currentListType)
    /\ result' = stringify(createRootNode(rootChildren'))
    /\ pc' = "done"
    /\ UNCHANGED <<content, paragraphBlocks, blockIndex, lineIndex,
                   currentListItems, currentListType, resolverVars, pairVars,
                   noteVars>>

\* ---------------------------------------- processTextWithMarkup, by steps

\* An iteration of the link loop: exec found a link.
LinkIteration ==
    /\ pc = "link"
    /\ linkExec(text, linkRegex).found
    /\ LET m  == linkExec(text, linkRegex)
           st == linkBody(text, [nodes |-> nodes, lastIndex |-> lastIndex], m)
       IN  /\ nodes' = st.nodes
           /\ lastIndex' = st.lastIndex
           /\ linkRegex' = m.index + m.length
    /\ UNCHANGED <<pc, text, remainingText, boldLastIndex, boldRegex,
                   boldMatch, italic, ret, segmenterVars, pairVars, noteVars>>

\* exec found no further link: on to the remaining text, if any.
LinkExit ==
    /\ pc = "link"
    /\ ~linkExec(text, linkRegex).found
    /\ linkRegex' = 0
    /\ IF lastIndex < Len(text)
       THEN /\ remainingText' = remainingOf(text, lastIndex)
            /\ pc' = "bold"
       ELSE /\ remainingText' = remainingText
            /\ pc' = "returned"
    /\ UNCHANGED <<text, nodes, lastIndex, boldLastIndex, boldRegex, boldMatch,
                   italic, ret, segmenterVars, pairVars, noteVars>>

callItalic(t) == [text |-> t, nodes |-> <<>>, lastIndex |-> 0, regexLastIndex |-> 0]

\* An iteration of the bold loop: the text before the match goes through
\* processItalicText first.
BoldIteration ==
    /\ pc = "bold"
    /\ boldExec(remainingText, boldRegex).found
    /\ LET m == boldExec(remainingText, boldRegex)
       IN  /\ boldMatch' = m
           /\ boldRegex' = m.index + m.length
           /\ IF m.index > boldLastIndex
              THEN /\ italic' = callItalic(slice(remainingText, boldLastIndex,
                                                 m.index))
                   /\ ret' = "bold"
                   /\ pc' = "italic"
                   /\ UNCHANGED <<nodes, boldLastIndex>>
              ELSE /\ nodes' = Append(nodes, boldNode(m))
                   /\ boldLastIndex' = m.index + m.length
                   /\ UNCHANGED <<pc, italic, ret>>
    /\ UNCHANGED <<text, lastIndex, linkRegex, remainingText, segmenterVars,
                   pairVars, noteVars>>

\* exec found no further bold span: the rest goes through processItalicText.
BoldExit ==
    /\ pc = "bold"
    /\ ~boldExec(remainingText, boldRegex).found
    /\ boldRegex' = 0
    /\ IF boldLastIndex < Len(remainingText)
       THEN /\ italic' = callItalic(slice(remainingText, boldLastIndex,
                                          Len(remainingText)))
            /\ ret' = "tail"
            /\ pc' = "italic"
       ELSE /\ pc' = "returned"
            /\ UNCHANGED <<italic, ret>>
    /\ UNCHANGED <<text, nodes, lastIndex, linkRegex, remainingText,
                   boldLastIndex, boldMatch, segmenterVars, pairVars, noteVars>>

\* An iteration of processItalicText's loop.
ItalicIteration ==
    /\ pc = "italic"
    /\ italicExec(italic.text, italic.regexLastIndex).found
    /\ LET m  == italicExec(italic.text, italic.regexLastIndex)
           st == italicBody(italic.text, italic, m)
       IN  italic' = [italic EXCEPT !.nodes = st.nodes,
                                    !.lastIndex = st.lastIndex,
                                    !.regexLastIndex = m.index + m.length]
    /\ UNCHANGED <<pc, text, nodes, lastIndex, linkRegex, remainingText,
                   boldLastIndex, boldRegex, boldMatch, ret, segmenterVars,
                   pairVars, noteVars>>

\* processItalicText returns: to the bold loop's body, or to the end.
ItalicExit ==
    /\ pc = "italic"
    /\ ~italicExec(italic.text, italic.regexLastIndex).found
    /\ LET italicNodes == italicReturn(italic.text, italic)
       IN  IF ret = "bold"
           THEN /\ nodes' = (nodes \o italicNodes) \o <<boldNode(boldMatch)>>
                /\ boldLastIndex' = boldMatch.index + boldMatch.length
                /\ pc' = "bold"
           ELSE /\ nodes' = nodes \o italicNodes
                /\ boldLastIndex' = boldLastIndex
                /\ pc' = "returned"
    /\ italic' = [italic EXCEPT !.regexLastIndex = 0]
    /\ ret' = "none"
    /\ UNCHANGED <<text, lastIndex, linkRegex, remainingText, boldRegex,
                   boldMatch, segmenterVars, pairVars, noteVars>>

Next ==
    \/ Start
    \/ ListItemLine
    \/ HorizontalRuleLine
    \/ HeadingLine
    \/ QuoteLine
    \/ ImageLine
    \/ ParagraphLine
    \/ Finish
    \/ LinkIteration
    \/ LinkExit
    \/ BoldIteration
    \/ BoldExit
    \/ ItalicIteration
    \/ ItalicExit

Spec == Init /\ [][Next]_vars

\* The step machine and the operator are the same function.
ResolverAgrees == pc = "returned" => nodes = processTextWithMarkup(text)

\* ------------------------------- parseMarkdownToMobiledoc, two calls at once

\* The block that a line which is no list item yields.
blockOf(line) ==
    IF isHorizontalRule(line) THEN createHorizontalRuleNode
    ELSE IF headingMatch(line).found THEN headingOf(line)
    ELSE IF startsWith(line, ">") THEN quoteOf(line)
    ELSE IF imageMatch(line).found THEN imageOf(line)
    ELSE paragraphOf(line)

\* The scan state a call starts with: the three declarations before the loops.
emptyScan ==
    [rootChildren |-> <<>>, currentListItems |-> null, currentListType |-> "null"]

\* The body of the inner forEach for one trimmed line, on the scan state
\* [rootChildren, currentListItems, currentListType].
lineStep(scan, line) ==
    IF isListLine(line)
    THEN LET listType == listTypeOf(line)
             items    == itemsAfterListStart(scan.currentListItems,
                                             scan.currentListType, listType)
         IN  [rootChildren |->
                  rootAfterListStart(scan.rootChildren, scan.currentListItems,
                                     scan.currentListType, listType),
              currentListItems |->
                  IF items = null THEN items
                  ELSE some(Append(get(items), createListItemOf(listTextOf(line)))),
              currentListType |->
                  IF startsNewList(scan.currentListItems, scan.currentListType,
                                   listType)
                  THEN listType ELSE scan.currentListType]
    ELSE [rootChildren |->
              Append(closeCurrentList(scan.rootChildren, scan.currentListItems,
                                      scan.currentListType), blockOf(line)),
          currentListItems |-> null,
          currentListType |-> "null"]

RECURSIVE allLines(_, _)
\* The trimmed lines the two forEach loops visit, in order, from block k on.
allLines(blocks, k) ==
    IF k > Len(blocks) THEN <<>>
    ELSE [i \in 1..Len(linesOf(blocks[k])) |-> trim(linesOf(blocks[k])[i])]
         \o allLines(blocks, k + 1)

RECURSIVE scanLines(_, _, _)
\* The scan state after the lines from the k-th on.
scanLines(scan, ls, k) ==
    IF k > Len(ls) THEN scan ELSE scanLines(lineStep(scan, ls[k]), ls, k + 1)

\* What the code after the loops returns for a scan state.
returnOf(scan) ==
    stringify(createRootNode(finalChildren(scan.rootChildren,
                                           scan.currentListItems,
                                           scan.currentListType)))

\* A call of parseMarkdownToMobiledoc run alone, from its start to its return.
parseMarkdownToMobiledoc(c) ==
    returnOf(scanLines(emptyScan, allLines(blocksOf(c), 1), 1))

\* The single call by steps and the operator are the same function.
ConverterAgrees == pc = "done" => result = parseMarkdownToMobiledoc(content)

\* The two calls.
Calls == {1, 2}

\* The longest document of a call of the pair, in lines.
MaxPairLines == 2

\* The lines of these documents: a bullet item, an ordered item, a paragraph.
PairLines == {<<"-", " ", "a">>, <<"1", ".", " ", "c">>, <<"p">>}

RECURSIVE PairDocuments(_)
PairDocuments(n) ==
    IF n = 1 THEN PairLines
    ELSE PairDocuments(n - 1) \cup
         {d \o <<"\n">> \o l : d \in PairDocuments(n - 1), l \in PairLines}

\* The three variables declared once, outside the function.
scanOf_moduleLevel(i) == 1

\* The scan state of the call i: rootChildren, currentListItems and
\* currentListType are declared in the function's body, so every call has
\* bindings of its own.
scanOf(i) == i

\* Two calls of parseMarkdownToMobiledoc on documents of their own, about to
\* start.
PairInit ==
    /\ pc = "pair"
    /\ calls \in [Calls -> {[pc |-> "start", content |-> d, lines |-> <<>>,
                             lineIndex |-> 0, result |-> [root |-> [type |-> "none"]]] :
                            d \in PairDocuments(MaxPairLines)}]
    /\ scans = [i \in Calls |-> emptyScan]
    /\ content = <<>>
    /\ paragraphBlocks = <<>>
    /\ blockIndex = 0
    /\ lineIndex = 0
    /\ rootChildren = <<>>
    /\ currentListItems = null
    /\ currentListType = "null"
    /\ result = [root |-> [type |-> "none"]]
    /\ text = <<>>
    /\ nodes = <<>>
    /\ lastIndex = 0
    /\ linkRegex = 0
    /\ remainingText = <<>>
    /\ boldLastIndex = 0
    /\ boldRegex = 0
    /\ boldMatch = noMatch
    /\ italic = noFrame
    /\ ret = "none"
    /\ note = <<>>
    /\ frontMatter = noFrontMatter
    /\ markdownContent = <<>>
    /\ initialOptions = noOptions
    /\ noUpload
    /\ noModal
    /\ noPublish
    /\ noSettings

\* The call i runs its declarations and splits its content.
PairStart(i) ==
    /\ calls[i].pc = "start"
    /\ scans' = [scans EXCEPT ![scanOf(i)] = emptyScan]
    /\ calls' = [calls EXCEPT
                     ![i].lines = allLines(blocksOf(calls[i].content), 1),
                     ![i].pc = IF allLines(blocksOf(calls[i].content), 1) = <<>>
                               THEN "final" ELSE "line"]
    /\ UNCHANGED <<pc, segmenterVars, resolverVars, noteVars>>

\* The call i handles its next line.
PairLine(i) ==
    /\ calls[i].pc = "line"
    /\ scans' = [scans EXCEPT ![scanOf(i)] =
                     lineStep(@, calls[i].lines[calls[i].lineIndex + 1])]
    /\ calls' = [calls EXCEPT
                     ![i].lineIndex = @ + 1,
                     ![i].pc = IF calls[i].lineIndex + 1 < Len(calls[i].lines)
                               THEN "line" ELSE "final"]
    /\ UNCHANGED <<pc, segmenterVars, resolverVars, noteVars>>

\* The call i closes its open list and returns.
PairFinish(i) ==
    /\ calls[i].pc = "final"
    /\ scans' = [scans EXCEPT ![scanOf(i)].rootChildren =
                     finalChildren(scans[scanOf(i)].rootChildren,
                                   scans[scanOf(i)].currentListItems,
                                   scans[scanOf(i)].currentListType)]
    /\ calls' = [calls EXCEPT ![i].result = returnOf(scans[scanOf(i)]),
                              ![i].pc = "done"]
    /\ UNCHANGED <<pc, segmenterVars, resolverVars, noteVars>>

PairNext ==
    \E i \in Calls :
        \/ PairStart(i)
        \/ PairLine(i)
        \/ PairFinish(i)

PairSpec == PairInit /\ [][PairNext]_vars

\* ------------------------------------------- parseFrontMatter and the modal

\* String.prototype.indexOf(s, from): the smallest index i >= from where the
\* string s starts, or -1.
indexOfString(str, s, from) ==
    LET S == {i \in from..(Len(str) - Len(s)) : slice(str, i, i + Len(s)) = s}
    IN  IF S = {} THEN -1 ELSE CHOOSE i \in S : \A j \in S : i <= j

\* String.prototype.startsWith(s).
startsWithString(str, s) == Len(str) >= Len(s) /\ slice(str, 0, Len(s)) = s

\* String.prototype.split(sep, limit): the first limit pieces.
splitLimit(str, sep, limit) ==
    LET pieces == split(str, sep)
    IN  IF Len(pieces) > limit THEN SubSeq(pieces, 1, limit) ELSE pieces

UpperCase ==
    <<"A", "B", "C", "D", "E", "F", "G", "H", "I", "J", "K", "L", "M",
      "N", "O", "P", "Q", "R", "S", "T", "U", "V", "W", "X", "Y", "Z">>
LowerCase ==
    <<"a", "b", "c", "d", "e", "f", "g", "h", "i", "j", "k", "l", "m",
      "n", "o", "p", "q", "r", "s", "t", "u", "v", "w", "x", "y", "z">>

\* String.prototype.toLowerCase().
toLowerCase(str) ==
    [i \in 1..Len(str) |->
        IF \E k \in 1..26 : UpperCase[k] = str[i]
        THEN LowerCase[CHOOSE k \in 1..26 : UpperCase[k] = str[i]]
        ELSE str[i]]

\* The strings the code compares with and assigns.
divider == <<"-", "-", "-">>
s_draft == <<"d", "r", "a", "f", "t">>
s_published == <<"p", "u", "b", "l", "i", "s", "h", "e", "d">>
s_scheduled == <<"s", "c", "h", "e", "d", "u", "l", "e", "d">>
s_post == <<"p", "o", "s", "t">>
s_public == <<"p", "u", "b", "l", "i", "c">>
s_members == <<"m", "e", "m", "b", "e", "r", "s">>
s_paid == <<"p", "a", "i", "d">>
s_true == <<"t", "r", "u", "e">>
s_title == <<"t", "i", "t", "l", "e">>
s_status == <<"s", "t", "a", "t", "u", "s">>
s_time == <<"t", "i", "m", "e">>
s_featured == <<"f", "e", "a", "t", "u", "r", "e", "d">>
s_visibility == <<"v", "i", "s", "i", "b", "i", "l", "i", "t", "y">>
s_tags == <<"t", "a", "g", "s">>

\* "Default values": a title and a time are absent.
defaultFrontMatter ==
    [status |-> s_draft, tags |-> <<>>, featured |-> FALSE,
     visibility |-> s_public, title |-> undefined, time |-> undefined]

\* The trimmed entries of a list of strings that are not empty.
trimmedNonEmpty(parts) ==
    LET ts == [i \in 1..Len(parts) |-> trim(parts[i])]
    IN  SelectSeq(ts, LAMBDA t : t # <<>>)

RECURSIVE tagLines(_, _)
\* "If it's a list format": the tags of the lines from the j-th (0-based) on
\* that start with "-" once trimmed.
tagLines(lines, j) ==
    IF j < Len(lines) /\ startsWith(trim(lines[j + 1]), "-")
    THEN LET tag == trim(slice(trim(lines[j + 1]), 1, Len(trim(lines[j + 1]))))
         IN  (IF tag # <<>> THEN <<tag>> ELSE <<>>) \o tagLines(lines, j + 1)
    ELSE <<>>

\* The switch on the key of one "key: value" line, the i-th of lines.
frontMatterCase(fm, key, value, lines, i) ==
    CASE toLowerCase(key) = s_title -> [fm EXCEPT !.title = value]
      [] toLowerCase(key) = s_status ->
             [fm EXCEPT !.status = IF value = s_post \/ value = s_published
                                   THEN s_published ELSE s_draft]
      [] toLowerCase(key) = s_time -> [fm EXCEPT !.time = value]
      [] toLowerCase(key) = s_featured ->
             [fm EXCEPT !.featured = (toLowerCase(value) = s_true)]
      [] toLowerCase(key) = s_visibility ->
             IF toLowerCase(value) \in {s_public, s_members, s_paid}
             THEN [fm EXCEPT !.visibility = toLowerCase(value)]
             ELSE fm
      [] toLowerCase(key) = s_tags ->
             [fm EXCEPT !.tags =
                  IF value # <<>>
                  THEN trimmedNonEmpty(split(value, <<",">>))
                  ELSE tagLines(lines, i + 1)]
      [] OTHER -> fm

RECURSIVE frontMatterLoop(_, _, _)
\* The for loop over the lines of the front matter, from the i-th on.
frontMatterLoop(fm, lines, i) ==
    IF i >= Len(lines) THEN fm
    ELSE LET line == trim(lines[i + 1])
         IN  IF line = <<>> \/ indexOf(line, ":", 0) = -1
             THEN frontMatterLoop(fm, lines, i + 1)
             ELSE LET kv    == splitLimit(line, <<":">>, 2)
                      key   == trim(kv[1])
                      value == trim(kv[2])
                  IN  frontMatterLoop(frontMatterCase(fm, key, value, lines, i),
                                      lines, i + 1)

\* parseFrontMatter(content): [frontMatter, markdownContent].
parseFrontMatter(c) ==
    IF ~startsWithString(c, divider)
    THEN [frontMatter |-> defaultFrontMatter, markdownContent |-> c]
    ELSE LET secondDivider == indexOfString(c, divider, 3)
         IN  IF secondDivider = -1
             THEN [frontMatter |-> defaultFrontMatter, markdownContent |-> c]
             ELSE [frontMatter |->
                       frontMatterLoop(defaultFrontMatter,
                                       split(trim(slice(c, 3, secondDivider)),
                                             <<"\n">>), 0),
                   markdownContent |->
                       trim(slice(c, secondDivider + 3, Len(c)))]

\* A value is truthy: neither undefined nor the empty string.
truthy(v) == v # undefined /\ v # <<>>

\* new Date(): the moment of the call.
now == <<"now">>

\* new Date(value): the date the string denotes.
newDate(value) == [date |-> value]

\* "Create initial options from frontmatter or defaults".
initialOptionsOf(fm) ==
    [status |-> IF truthy(fm.status) THEN fm.status ELSE s_draft,
     tags |-> fm.tags,
     featured |-> fm.featured,
     visibility |-> IF truthy(fm.visibility) THEN fm.visibility ELSE s_public,
     scheduledTime |-> IF truthy(fm.time) THEN newDate(fm.time) ELSE newDate(now)]

\* The longest front matter, in lines.
MaxFrontLines == 2

\* The time of the README's example: 2025-09-16T10:00:00Z.
isoTime ==
    <<"2", "0", "2", "5", "-", "0", "9", "-", "1", "6", "T",
      "1", "0", ":", "0", "0", ":", "0", "0", "Z">>

\* The lines of the front matters.
FrontLines ==
    {<<"s", "t", "a", "t", "u", "s", ":", " ", "d", "r", "a", "f", "t">>,
     <<"s", "t", "a", "t", "u", "s", ":", " ", "p", "u", "b", "l", "i", "s", "h", "e", "d">>,
     <<"s", "t", "a", "t", "u", "s", ":", " ", "s", "c", "h", "e", "d", "u", "l", "e", "d">>,
     <<"s", "t", "a", "t", "u", "s", ":", " ", "p", "o", "s", "t">>,
     <<"S", "T", "A", "T", "U", "S", ":", " ", "p", "u", "b", "l", "i", "s", "h", "e", "d">>,
     <<"t", "i", "t", "l", "e", ":", " ", "T">>,
     <<"t", "i", "m", "e", ":", " ", "1", ":", "2">>,
     <<"t", "a", "g", "s", ":", " ", "x", ",", " ", "y">>,
     <<"t", "a", "g", "s", ":">>,
     <<"-", " ", "z">>,
     <<"f", "e", "a", "t", "u", "r", "e", "d", ":", " ", "T", "R", "U", "E">>,
     <<"v", "i", "s", "i", "b", "i", "l", "i", "t", "y", ":", " ", "P", "a", "i", "d">>,
     <<"v", "i", "s", "i", "b", "i", "l", "i", "t", "y", ":", " ", "x">>,
     s_time \o <<":", " ">> \o isoTime,
     s_title \o <<":", " ">> \o <<"a", ":", "b">>}

RECURSIVE FrontMatters(_)
\* The front matter texts of 1..n lines.
FrontMatters(n) ==
    IF n = 1 THEN FrontLines
    ELSE FrontMatters(n - 1) \cup
         {f \o <<"\n">> \o l : f \in FrontMatters(n - 1), l \in FrontLines}

\* The front matter line "key: v".
keyLine(key, v) == key \o <<":", " ">> \o v

\* A note of a front matter between two dividers and a body.
noteOf(front, body) == divider \o <<"\n">> \o front \o <<"\n">> \o divider \o body

\* The bodies of the notes: none, or a paragraph.
Bodies == {<<>>, <<"\n", "p">>}

\* Notes with a front matter, a note without one, and a note whose front
\* matter is not closed.
Notes ==
    {noteOf(f, b) : f \in FrontMatters(MaxFrontLines), b \in Bodies}
    \cup {<<"p">>, divider \o <<"\n">> \o <<"s", "t", "a", "t", "u", "s", ":", " ", "p", "u", "b", "l", "i", "s", "h", "e", "d">>}

\* ------------------------------------------------------------ publishToGhost

\* JavaScript's null, as a property's value.
jsNull == <<"null">>

\* Date.prototype.toISOString() of a valid date: the instant with its
\* milliseconds, in UTC.
toISOString(d) ==
    LET s == d.date
        millis == <<".", "0", "0", "0", "Z">>
    IN  IF Len(s) >= 1 /\ s[Len(s)] = "Z"
        THEN SubSeq(s, 1, Len(s) - 1) \o millis
        ELSE s \o millis

\* Array.prototype.join('\n').
RECURSIVE joinLines(_, _)
joinLines(ls, k) ==
    IF k > Len(ls) THEN <<>>
    ELSE IF k = Len(ls) THEN ls[k]
    ELSE ls[k] \o <<"\n">> \o joinLines(ls, k + 1)

\* String.prototype.includes(s).
includes(str, s) == indexOfString(str, s, 0) >= 0

\* ghostUrl.trim().replace(/\/$/, '')
baseUrlOf(ghostUrl) ==
    LET t == trim(ghostUrl)
    IN  IF Len(t) >= 1 /\ t[Len(t)] = "/" THEN SubSeq(t, 1, Len(t) - 1) ELSE t

\* The secret taken from the first piece as well.
credentialsOf_firstPiece(apiKey) ==
    [id |-> split(apiKey, <<":">>)[1], secret |-> split(apiKey, <<":">>)[1]]

\* const [id, secret] = apiKey.split(':')
credentialsOf(apiKey) ==
    LET parts == split(apiKey, <<":">>)
    IN  [id |-> parts[1],
         secret |-> IF Len(parts) >= 2 THEN parts[2] ELSE undefined]

\* firstLine.match(/^!\[.*?\]\((.*?)\)$/): the only group is the URL.
firstLineMatch(firstLine) ==
    LET m == imageMatch(firstLine)
    IN  IF m.found THEN [found |-> TRUE, g1 |-> m.g2] ELSE noMatch

\* "Check if first line is an image": the featured image found, and the
\* content the conversion is given.
firstImage(markdown) ==
    LET cleanMarkdown == trim(markdown)
        lines == split(cleanMarkdown, <<"\n">>)
        m == firstLineMatch(trim(lines[1]))
    IN  IF m.found
        THEN [featuredImage |-> m.g1,
              contentWithoutFirstImage |->
                  trim(joinLines(SubSeq(lines, 2, Len(lines)), 1))]
        ELSE [featuredImage |-> undefined,
              contentWithoutFirstImage |-> cleanMarkdown]

\* The time of the front matter taken whatever the status is.
publishedAtOf_anyStatus(fm) == IF truthy(fm.time) THEN fm.time ELSE jsNull

\* "Handle published_at field based on status".
publishedAtOf(fm) ==
    IF fm.status = s_scheduled /\ truthy(fm.time) THEN fm.time
    ELSE IF fm.status = s_published THEN toISOString(newDate(now))
    ELSE jsNull

\* posts[0] after the featured image, the tags and published_at are set.
\* feature_image and tags are properties only when they are assigned; featured
\* is a boolean in every front matter the callers build. (f @@ g adds to f the
\* properties of g that f has not: [title |-> t] adds none.)
postWith(t, featuredImage, lexical, fm) ==
    [title |-> t,
     lexical |-> lexical,
     status |-> IF truthy(fm.status) THEN fm.status ELSE s_draft,
     featured |-> fm.featured,
     visibility |-> IF truthy(fm.visibility) THEN fm.visibility ELSE s_public,
     published_at |-> publishedAtOf(fm)]
    @@ (IF truthy(featuredImage) THEN [feature_image |-> featuredImage]
        ELSE [title |-> t])
    @@ (IF Len(fm.tags) > 0
        THEN [tags |-> [i \in 1..Len(fm.tags) |-> [name |-> fm.tags[i]]]]
        ELSE [title |-> t])

\* "Prepare the post data": the first image taken off, the rest converted.
postDataOf(t, markdown, fm) ==
    CHOOSE post \in
        {postWith(t, first.featuredImage, lexical, fm) :
             first \in {firstImage(markdown)},
             lexical \in {parseMarkdownToMobiledoc(c) :
                              c \in {firstImage(markdown).contentWithoutFirstImage}}} :
        TRUE

\* JSON.stringify(postData), named by the data it writes.
stringifyPost(post) == [posts |-> <<post>>]

\* The path of the posts endpoint.
postsPath == <<"/", "g", "h", "o", "s", "t", "/", "a", "p", "i", "/", "a", "d", "m", "i", "n", "/", "p", "o", "s", "t", "s", "/">>

\* The first index from the index from on whose character is in cs, or the length.
firstOf(str, cs, from) ==
    LET S == {i \in from..(Len(str) - 1) : charAt(str, i) \in cs}
    IN  IF S = {} THEN Len(str) ELSE CHOOSE i \in S : \A j \in S : i <= j

\* new URL(url) for a URL of a scheme, "://", a host, a path and a query; a
\* string without a scheme is not a URL and the constructor throws.
newURL(url) ==
    LET sep == indexOfString(url, <<":", "/", "/">>, 0)
    IN  IF sep < 1 THEN [threw |-> TRUE]
        ELSE LET hostStart == sep + 3
                 hostEnd == firstOf(url, {"/", "?"}, hostStart)
                 pathEnd == firstOf(url, {"?"}, hostEnd)
                 path == slice(url, hostEnd, pathEnd)
                 query == slice(url, pathEnd, Len(url))
             IN  IF hostEnd = hostStart THEN [threw |-> TRUE]
                 ELSE [threw |-> FALSE,
                       hostname |-> slice(url, hostStart, hostEnd),
                       pathname |-> IF path = <<>> THEN <<"/">> ELSE path,
                       search |-> IF query = <<"?">> THEN <<>> ELSE query]

\* The results publishToGhost and publishWithNode settle with.
failure(message) == [success |-> FALSE, error |-> message]
success == [success |-> TRUE]

\* publishToGhost from its call to its first await: either it has returned,
\* or the primary request is sent and awaited.
publishToGhost(st, t, markdown, fm) ==
    IF ~truthy(st.ghostUrl) \/ ~truthy(st.apiKey)
    THEN [returned |-> TRUE, result |-> failure("Ghost URL and API Key are required"),
          postData |-> null, requests |-> <<>>]
    ELSE IF ~truthy(credentialsOf(st.apiKey).id)
            \/ ~truthy(credentialsOf(st.apiKey).secret)
    THEN [returned |-> TRUE, result |-> failure("Invalid API key format"),
          postData |-> null, requests |-> <<>>]
    ELSE CHOOSE r \in {[returned |-> FALSE, result |-> null,
                         postData |-> some(post),
                         requests |-> <<[transport |-> "requestUrl",
                                         url |-> baseUrlOf(st.ghostUrl) \o postsPath,
                                         body |-> stringifyPost(post)]>>] :
                            post \in {postDataOf(t, markdown, fm)}} : TRUE

\* publishWithNode(url, id, secret, postData) up to req.end(): either it has
\* resolved, or its request is sent.
publishWithNode(url, post, win) ==
    IF ~win.require
    THEN [returned |-> TRUE,
          result |-> failure("Could not access Node.js modules for publishing"),
          requests |-> <<>>]
    ELSE IF newURL(url).threw
    THEN [returned |-> TRUE, result |-> failure("Error during publishing"),
          requests |-> <<>>]
    ELSE [returned |-> FALSE, result |-> null,
          requests |-> <<[transport |-> "https",
                          hostname |-> newURL(url).hostname,
                          path |-> newURL(url).pathname \o newURL(url).search,
                          body |-> stringifyPost(post)]>>]

\* The segmenter, the resolver and the pair of calls are not running.
noConversion ==
    /\ calls = <<>>
    /\ scans = <<>>
    /\ content = <<>>
    /\ paragraphBlocks = <<>>
    /\ blockIndex = 0
    /\ lineIndex = 0
    /\ rootChildren = <<>>
    /\ currentListItems = null
    /\ currentListType = "null"
    /\ result = [root |-> [type |-> "none"]]
    /\ text = <<>>
    /\ nodes = <<>>
    /\ lastIndex = 0
    /\ linkRegex = 0
    /\ remainingText = <<>>
    /\ boldLastIndex = 0
    /\ boldRegex = 0
    /\ boldMatch = noMatch
    /\ italic = noFrame
    /\ ret = "none"

\* The longest body publishToGhost is called with, in lines.
MaxBodyLines == 2

\* The lines of these bodies: a paragraph, an image, an image without a URL,
\* an image with spaces around it.
BodyLines == {<<"p">>, <<"!", "[", "i", "]", "(", "u", ")">>, <<"!", "[", "i", "]", "(", ")">>, <<" ", "!", "[", "j", "]", "(", "v", ")", " ">>}

RECURSIVE MarkdownBodies(_)
MarkdownBodies(n) ==
    IF n = 1 THEN BodyLines
    ELSE MarkdownBodies(n - 1) \cup
         {b \o <<"\n">> \o l : b \in MarkdownBodies(n - 1), l \in BodyLines}

\* The front matters publishToGhost is called with.
FrontMatterArguments ==
    [status : {undefined, s_draft, s_published, s_scheduled},
     time : {undefined, isoTime},
     tags : {<<>>, <<<<"x">>>>},
     featured : {FALSE},
     visibility : {s_public},
     title : {undefined}]

\* The settings: no URL, a URL with and without a slash at its end, with a
\* path, without a scheme; no key, keys without a colon, without an id,
\* without a secret, with both, with a third part.
GhostUrls == {<<>>, <<"h", "t", "t", "p", "s", ":", "/", "/", "g", ".", "i", "o">>, <<"h", "t", "t", "p", "s", ":", "/", "/", "g", ".", "i", "o", "/">>, <<"h", "t", "t", "p", "s", ":", "/", "/", "g", ".", "i", "o", "/", "b">>, <<"g", ".", "i", "o">>}
ApiKeys == {<<>>, <<"i", "s">>, <<":", "s">>, <<"i", ":">>, <<"i", ":", "s">>, <<"i", ":", "s", ":", "x">>}
AllSettings == [ghostUrl : GhostUrls, apiKey : ApiKeys]
goodSettings == [ghostUrl |-> <<"h", "t", "t", "p", "s", ":", "/", "/", "g", ".", "i", "o", "/">>, apiKey |-> <<"i", ":", "s">>]

\* The calls of publishToGhost: every setting with one post, and every post
\* with the settings of a Ghost site.
PublishCalls ==
    {[settings |-> st,
      arguments |-> [title |-> <<"T">>, markdownContent |-> <<"p">>,
                     frontMatter |-> defaultFrontMatter]] : st \in AllSettings}
    \cup
    {[settings |-> goodSettings,
      arguments |-> [title |-> <<"T">>, markdownContent |-> b, frontMatter |-> fm]] :
         b \in MarkdownBodies(MaxBodyLines), fm \in FrontMatterArguments}

\* publishToGhost is called.
PublishInit ==
    /\ pc = "publish"
    /\ \E c \in PublishCalls :
           /\ settings = c.settings
           /\ call = some(c.arguments)
    /\ window \in [require : BOOLEAN]
    /\ postData = null
    /\ requests = <<>>
    /\ response = null
    /\ outcome = null
    /\ nodeCalls = 0
    /\ note = <<>>
    /\ frontMatter = noFrontMatter
    /\ markdownContent = <<>>
    /\ initialOptions = noOptions
    /\ noUpload
    /\ noModal
    /\ noConversion

\* publishToGhost runs to its first await.
PublishToGhost ==
    /\ pc = "publish"
    /\ \E r \in {publishToGhost(settings, get(call).title,
                                get(call).markdownContent, get(call).frontMatter)} :
           /\ postData' = r.postData
           /\ requests' = r.requests
           /\ outcome' = IF r.returned THEN some(r.result) ELSE null
           /\ pc' = IF r.returned THEN "resolved" ELSE "awaiting"
    /\ UNCHANGED <<settings, window, call, response, nodeCalls, note, frontMatter,
                   markdownContent, initialOptions, uploadVars, modalVars,
                   segmenterVars, resolverVars, pairVars>>

\* return await this.publishWithNode(baseUrl, id, secret, postData)
Fallback ==
    \E r \in {publishWithNode(baseUrlOf(settings.ghostUrl), get(postData), window)} :
        /\ nodeCalls' = nodeCalls + 1
        /\ requests' = requests \o r.requests
        /\ outcome' = IF r.returned THEN some(r.result) ELSE null
        /\ pc' = IF r.returned THEN "resolved" ELSE "nodeAwaiting"

\* publishToGhost returns without a second attempt.
Return(r) ==
    /\ outcome' = some(r)
    /\ pc' = "resolved"
    /\ UNCHANGED <<requests, nodeCalls>>

\* The bodies of the responses.
s_INVALID_JWT == <<"I", "N", "V", "A", "L", "I", "D", "_", "J", "W", "T">>
s_InvalidToken == <<"I", "n", "v", "a", "l", "i", "d", " ", "t", "o", "k", "e", "n">>

\* The responses of the primary request: a post created, a 2xx whose body is
\* not JSON, the two token errors, two other errors.
Responses ==
    {[status |-> 201, text |-> <<"{", "}">>],
     [status |-> 200, text |-> <<"o", "k">>],
     [status |-> 401, text |-> <<"{", "I", "N", "V", "A", "L", "I", "D", "_", "J", "W", "T", "}">>],
     [status |-> 403, text |-> <<"I", "n", "v", "a", "l", "i", "d", " ", "t", "o", "k", "e", "n">>],
     [status |-> 404, text |-> <<"n", "o">>],
     [status |-> 500, text |-> <<"{", "}">>]}

\* JSON.parse(str) returns, for the bodies above.
parsesAsJSON(str) == Len(str) >= 2 /\ str[1] = "{" /\ str[Len(str)] = "}"

\* The catch of the inner try: requestUrl has thrown.
RequestUrlThrows ==
    /\ pc = "awaiting"
    /\ response' = some([threw |-> TRUE])
    /\ Fallback
    /\ UNCHANGED <<settings, window, call, postData, note, frontMatter,
                   markdownContent, initialOptions, uploadVars, modalVars,
                   segmenterVars, resolverVars, pairVars>>

\* requestUrl has returned a response. Reading response.json of a body that is
\* not JSON either throws, inside the inner try, or yields no data.
RequestUrlReturns ==
    /\ pc = "awaiting"
    /\ \E r \in Responses :
           /\ response' = some([threw |-> FALSE, status |-> r.status, text |-> r.text])
           /\ IF r.status >= 200 /\ r.status < 300
              THEN \E jsonThrows \in (IF parsesAsJSON(r.text) THEN {FALSE} ELSE BOOLEAN) :
                       IF jsonThrows THEN Fallback ELSE Return(success)
              ELSE IF includes(r.text, s_INVALID_JWT) \/ includes(r.text, s_InvalidToken)
                   THEN Fallback
                   ELSE Return(failure("API Error"))
    /\ UNCHANGED <<settings, window, call, postData, note, frontMatter,
                   markdownContent, initialOptions, uploadVars, modalVars,
                   segmenterVars, resolverVars, pairVars>>

\* The request of publishWithNode ends: a 2xx response, another response, or
\* the request's error event.
NodeRequestEnds ==
    /\ pc = "nodeAwaiting"
    /\ \E e \in {"2xx", "other", "error"} :
           outcome' = some(CASE e = "2xx" -> success
                             [] e = "other" -> failure("API Error")
                             [] e = "error" -> failure("Network error during publishing"))
    /\ pc' = "resolved"
    /\ UNCHANGED <<settings, window, call, postData, requests, response, nodeCalls,
                   note, frontMatter, markdownContent, initialOptions, uploadVars,
                   modalVars, segmenterVars, resolverVars, pairVars>>

PublishNext ==
    \/ PublishToGhost
    \/ RequestUrlThrows
    \/ RequestUrlReturns
    \/ NodeRequestEnds

PublishSpec == PublishInit /\ [][PublishNext]_vars

\* --------------------------------------------------------- processImageLinks

\* /!\[\[(.*?)\]\]/ at the index i: the path runs to the first "]]" of the line.
imageLinkAt(str, i) ==
    IF slice(str, i, i + 3) # <<"!", "[", "[">> THEN noMatch
    ELSE LET js == {j \in (i + 3)..(Len(str) - 2) :
                        /\ slice(str, j, j + 2) = <<"]", "]">>
                        /\ \A k \in (i + 3)..(j - 1) : charAt(str, k) # "\n"}
         IN  IF js = {} THEN noMatch
             ELSE LET j == CHOOSE q \in js : \A r \in js : q <= r
                  IN  [found |-> TRUE, end |-> j + 2, g1 |-> slice(str, i + 3, j)]

RECURSIVE imagePathsFrom(_, _)
\* The loop of imageRegex.exec(content): the paths of the image links from
\* the index from on.
imagePathsFrom(str, from) ==
    LET S == {i \in from..(Len(str) - 5) : imageLinkAt(str, i).found}
    IN  IF S = {} THEN <<>>
        ELSE LET i == CHOOSE q \in S : \A r \in S : q <= r
             IN  <<imageLinkAt(str, i).g1>> \o imagePathsFrom(str, imageLinkAt(str, i).end)

RECURSIVE replaceAll(_, _, _, _)
\* String.prototype.replace with a global regex of a literal pattern.
replaceAll(str, pattern, replacement, from) ==
    LET i == indexOfString(str, pattern, from)
    IN  IF i < 0 THEN slice(str, from, Len(str))
        ELSE slice(str, from, i) \o replacement
             \o replaceAll(str, pattern, replacement, i + Len(pattern))

\* Map.prototype.set: a new key goes last, a known key keeps its place.
mapSet(map, key, value) ==
    IF \E k \in 1..Len(map) : map[k].key = key
    THEN [k \in 1..Len(map) |->
              IF map[k].key = key THEN [key |-> key, value |-> value] ELSE map[k]]
    ELSE Append(map, [key |-> key, value |-> value])

RECURSIVE replaceImageLinks(_, _, _)
\* "Replace image links with Ghost URLs", from the k-th entry of the map on.
replaceImageLinks(str, map, k) ==
    IF k > Len(map) THEN str
    ELSE replaceImageLinks(
             replaceAll(str, <<"!", "[", "[">> \o map[k].key \o <<"]", "]">>,
                        <<"!", "[", "]", "(">> \o map[k].value \o <<")">>, 0),
             map, k + 1)

\* The loop left at its last path, without the await of its upload.
uploadsOver_noAwait(paths, up) == up.index >= Len(paths)

\* The loop over imagePaths is over and nothing is awaited.
uploadsOver(paths, up) == ~up.inFlight /\ up.index > Len(paths)

\* The URL Ghost gives an uploaded image.
ghostUrlOf(imagePath) == <<"h", "t", "t", "p", "s", ":", "/", "/", "g", ".", "i", "o", "/", "c", "/">> \o imagePath

\* --------------------------------------------------------- publishCurrentNote

\* The most images of a note.
MaxImages == 2

\* The lines with an image link.
ImageLines == {<<"!", "[", "[", "a", "]", "]">>, <<"x", " ", "!", "[", "[", "b", "]", "]", " ", "y">>}

RECURSIVE ImageBodies(_)
ImageBodies(n) ==
    IF n = 1 THEN {<<"\n">> \o l : l \in ImageLines}
    ELSE ImageBodies(n - 1) \cup
         {b \o <<"\n">> \o l : b \in ImageBodies(n - 1), l \in ImageLines}

\* Notes with images: with a front matter of a title or of a time, and
\* without a front matter.
ImageNotes ==
    {noteOf(f, b) : f \in {keyLine(s_title, <<"T">>), keyLine(s_time, isoTime)},
                    b \in ImageBodies(MaxImages)}
    \cup {<<"!", "[", "[", "a", "]", "]">>}

\* view.file?.basename
fileName == <<"N">>

\* publishCurrentNote is called on a note.
NoteInit ==
    /\ pc = "note"
    /\ note \in Notes \cup ImageNotes
    /\ frontMatter = noFrontMatter
    /\ markdownContent = <<>>
    /\ initialOptions = noOptions
    /\ settings = goodSettings
    /\ window = [require |-> TRUE]
    /\ noUpload
    /\ noModal
    /\ noPublish
    /\ noConversion

\* const { frontMatter, markdownContent } = this.parseFrontMatter(content)
ParseFrontMatter ==
    /\ pc = "note"
    /\ frontMatter' = parseFrontMatter(note).frontMatter
    /\ markdownContent' = parseFrontMatter(note).markdownContent
    /\ pc' = "parsed"
    /\ UNCHANGED <<note, initialOptions, uploadVars, modalVars, publishVars,
                   segmenterVars, resolverVars, pairVars>>

\* processImageLinks up to its first await: the paths are collected; without
\* a path the content is returned as it is.
FindImageLinks ==
    /\ pc = "parsed"
    /\ imagePaths' = imagePathsFrom(markdownContent, 0)
    /\ imageMap' = <<>>
    /\ upload' = [index |-> 1, inFlight |-> FALSE, started |-> 0]
    /\ IF imagePaths' = <<>>
       THEN /\ processedContent' = markdownContent
            /\ pc' = "processed"
       ELSE /\ processedContent' = processedContent
            /\ pc' = "uploading"
    /\ UNCHANGED <<note, frontMatter, markdownContent, initialOptions, title, modal,
                   submitted, publishVars, segmenterVars, resolverVars, pairVars>>

\* uploadImageToGhost(imagePath, view) is called: the file is in the vault and
\* its upload starts, or it is not and null is returned.
StartUpload ==
    /\ pc = "uploading"
    /\ ~upload.inFlight
    /\ upload.index <= Len(imagePaths)
    /\ \E found \in BOOLEAN :
           upload' = IF found
                     THEN [upload EXCEPT !.inFlight = TRUE, !.started = @ + 1]
                     ELSE [upload EXCEPT !.index = @ + 1]
    /\ UNCHANGED <<pc, note, frontMatter, markdownContent, initialOptions, imagePaths,
                   imageMap, modalVars, publishVars, segmenterVars, resolverVars,
                   pairVars>>

\* The awaited upload ends, with the image's URL or with null.
FinishUpload ==
    /\ pc = "uploading"
    /\ upload.inFlight
    /\ \E uploaded \in BOOLEAN :
           imageMap' = IF uploaded
                       THEN mapSet(imageMap, imagePaths[upload.index],
                                   ghostUrlOf(imagePaths[upload.index]))
                       ELSE imageMap
    /\ upload' = [upload EXCEPT !.inFlight = FALSE, !.index = @ + 1]
    /\ UNCHANGED <<pc, note, frontMatter, markdownContent, initialOptions, imagePaths,
                   modalVars, publishVars, segmenterVars, resolverVars, pairVars>>

\* "Replace image links with Ghost URLs" and return.
ReplaceImageLinks ==
    /\ pc = "uploading"
    /\ uploadsOver(imagePaths, upload)
    /\ processedContent' = replaceImageLinks(markdownContent, imageMap, 1)
    /\ pc' = "processed"
    /\ UNCHANGED <<note, frontMatter, markdownContent, initialOptions, uploadVars,
                   title, modal, submitted, publishVars, segmenterVars, resolverVars,
                   pairVars>>

\* The PublishPreviewModal constructed with a title and initial options, open.
newModal(t, options) ==
    [open |-> TRUE, title |-> t, currentOptions |-> options]

\* The title, the initial options, and the preview modal opened with them.
CreateInitialOptions ==
    /\ pc = "processed"
    /\ title' = IF truthy(frontMatter.title) THEN frontMatter.title ELSE fileName
    /\ initialOptions' = initialOptionsOf(frontMatter)
    /\ modal' = newModal(title', initialOptions')
    /\ pc' = "modal"
    /\ UNCHANGED <<note, frontMatter, markdownContent, uploadVars, processedContent,
                   submitted, publishVars, segmenterVars, resolverVars, pairVars>>

\* ------------------------------------------------------- PublishPreviewModal

\* The day after the moment of the call.
tomorrow == <<"tomorrow">>

\* The value of the datetime-local input after the user has picked a time.
pickedValue == <<"2", "0", "3", "0", "-", "0", "1", "-", "0", "1", "T", "1", "0", ":", "0", "0">>

\* The strings every engine parses as a date, and the two moments.
ValidTimes == {now, tomorrow, isoTime, pickedValue, <<"2", "0", "2", "5", "-", "0", "9", "-", "1", "6">>}

\* Whether a Date is valid: how a string outside the date time string format
\* is parsed is left to the engine.
validities(d) == IF d.date \in ValidTimes THEN {TRUE} ELSE BOOLEAN

\* The outcomes of scheduledTime <= new Date(): a date made by an earlier
\* new Date() is not later, tomorrow is, a written or picked date is either.
notLaterThanNow(d) ==
    CASE d.date = now -> {TRUE}
      [] d.date = tomorrow -> {FALSE}
      [] OTHER -> BOOLEAN

\* What the user types into the title input.
TitleValues == {<<"E">>, <<>>}

\* The title input's onChange.
SetTitle ==
    /\ pc = "modal"
    /\ \E value \in TitleValues : modal' = [modal EXCEPT !.title = value]
    /\ UNCHANGED <<pc, note, frontMatter, markdownContent, initialOptions, uploadVars,
                   title, processedContent, submitted, publishVars, segmenterVars,
                   resolverVars, pairVars>>

\* The scheduled time after the status dropdown's onChange.
scheduledTimeAfter(newStatus, scheduledTime, valid, notLater) ==
    IF newStatus = s_scheduled
    THEN IF valid /\ notLater THEN newDate(tomorrow) ELSE scheduledTime
    ELSE newDate(now)

\* The status dropdown's onChange.
SetStatus ==
    /\ pc = "modal"
    /\ \E newStatus \in {s_draft, s_published, s_scheduled} :
       \E valid \in validities(modal.currentOptions.scheduledTime) :
       \E notLater \in notLaterThanNow(modal.currentOptions.scheduledTime) :
           modal' = [modal EXCEPT
                        !.currentOptions.status = newStatus,
                        !.currentOptions.scheduledTime =
                            scheduledTimeAfter(newStatus, @, valid, notLater)]
    /\ UNCHANGED <<pc, note, frontMatter, markdownContent, initialOptions, uploadVars,
                   title, processedContent, submitted, publishVars, segmenterVars,
                   resolverVars, pairVars>>

\* The date input's input event; the input is displayed only while the status
\* is scheduled.
SetDate ==
    /\ pc = "modal"
    /\ modal.currentOptions.status = s_scheduled
    /\ \E value \in {pickedValue, <<>>} :
           modal' = [modal EXCEPT !.currentOptions.scheduledTime =
                                      IF value # <<>> THEN newDate(value)
                                      ELSE newDate(tomorrow)]
    /\ UNCHANGED <<pc, note, frontMatter, markdownContent, initialOptions, uploadVars,
                   title, processedContent, submitted, publishVars, segmenterVars,
                   resolverVars, pairVars>>

\* The Cancel button.
ClickCancel ==
    /\ pc = "modal"
    /\ modal' = [modal EXCEPT !.open = FALSE]
    /\ pc' = "closed"
    /\ UNCHANGED <<note, frontMatter, markdownContent, initialOptions, uploadVars,
                   title, processedContent, submitted, publishVars, segmenterVars,
                   resolverVars, pairVars>>

\* The front matter the submit callback hands to publishToGhost.
submittedFrontMatter(fm, options) ==
    [fm EXCEPT !.status = options.status,
               !.tags = options.tags,
               !.featured = options.featured,
               !.visibility = options.visibility,
               !.time = toISOString(options.scheduledTime)]

\* The Publish button: onSubmit(this.currentOptions), then close(). The submit
\* callback runs to the first await of publishToGhost; toISOString of an
\* invalid date throws and the callback's promise is rejected.
ClickPublish ==
    /\ pc = "modal"
    /\ submitted' = Append(submitted, modal.currentOptions)
    /\ modal' = [modal EXCEPT !.open = FALSE]
    /\ \E valid \in validities(modal.currentOptions.scheduledTime) :
           IF valid
           THEN \E fm \in {submittedFrontMatter(frontMatter, modal.currentOptions)} :
                \E r \in {publishToGhost(settings, title, processedContent, fm)} :
                    /\ call' = some([title |-> title,
                                     markdownContent |-> processedContent,
                                     frontMatter |-> fm])
                    /\ postData' = r.postData
                    /\ requests' = r.requests
                    /\ outcome' = IF r.returned THEN some(r.result) ELSE null
                    /\ pc' = IF r.returned THEN "resolved" ELSE "awaiting"
           ELSE /\ pc' = "rejected"
                /\ UNCHANGED <<call, postData, requests, outcome>>
    /\ UNCHANGED <<note, frontMatter, markdownContent, initialOptions, uploadVars,
                   title, processedContent, settings, window, response, nodeCalls,
                   segmenterVars, resolverVars, pairVars>>

NoteNext ==
    \/ ParseFrontMatter
    \/ FindImageLinks
    \/ StartUpload
    \/ FinishUpload
    \/ ReplaceImageLinks
    \/ CreateInitialOptions
    \/ ClickCancel
    \/ ClickPublish
    \/ RequestUrlThrows
    \/ RequestUrlReturns
    \/ NodeRequestEnds

NoteSpec == NoteInit /\ [][NoteNext]_vars

\* The front matters parseFrontMatter hands to the modal's caller.
ModalFrontMatters ==
    {[defaultFrontMatter EXCEPT !.status = s, !.time = t, !.title = ti] :
         s \in {s_draft, s_published},
         t \in {undefined, <<"2", "0", "2", "5", "-", "0", "9", "-", "1", "6">>, <<"2", "0", "2", "5", "-", "0", "9", "-", "1", "6", "T", "1", "0">>},
         ti \in {undefined, <<"T">>}}

\* The preview modal has been opened by publishCurrentNote.
ModalInit ==
    /\ pc = "modal"
    /\ frontMatter \in ModalFrontMatters
    /\ processedContent \in {<<"p">>, <<"!", "[", "i", "]", "(", "u", ")", "\n", "p">>}
    /\ title = IF truthy(frontMatter.title) THEN frontMatter.title ELSE fileName
    /\ initialOptions = initialOptionsOf(frontMatter)
    /\ modal = newModal(title, initialOptions)
    /\ submitted = <<>>
    /\ note = <<>>
    /\ markdownContent = <<>>
    /\ settings = goodSettings
    /\ window = [require |-> TRUE]
    /\ noUpload
    /\ noPublish
    /\ noConversion

ModalNext ==
    \/ SetTitle
    \/ SetStatus
    \/ SetDate
    \/ ClickCancel
    \/ ClickPublish
    \/ RequestUrlThrows
    \/ RequestUrlReturns
    \/ NodeRequestEnds

ModalSpec == ModalInit /\ [][ModalNext]_vars

\* ----------------------------------------------- what the claims speak of

\* The resolver has returned / the converter has returned.
Returned == pc = "returned"
Done == pc = "done"

\* The children of the root of the returned document.
output == result.root.children

\* The lines of the input, in order: the non-blank ones, trimmed.
nonBlankLines(c) ==
    LET ls == SelectSeq(split(c, <<"\n">>), LAMBDA l : trim(l) # <<>>)
    IN  [i \in 1..Len(ls) |-> trim(ls[i])]

\* The kind of a line: a bullet item, an ordered item, or no list item.
kindOf(line) ==
    IF charAt(line, 0) \in {"-", "*"} /\ bulletListMatch(line).found THEN "bullet"
    ELSE IF charAt(line, 0) \in Digits /\ numberListMatch(line).found THEN "number"
    ELSE "other"

\* The [index, end) spans of the links of a text, as a set of positions.
linkPositions(t) ==
    UNION {linkMatchAt(t, i).index..(linkMatchAt(t, i).index
                                      + linkMatchAt(t, i).length - 1) :
           i \in {k \in 0..(Len(t) - 1) : linkMatchAt(t, k).found}}

\* The span [i, i + n) of a text lies outside every link of it.
outsideLinks(t, i, n) == (i..(i + n - 1)) \cap linkPositions(t) = {}

\* Some node is a text node of the given content and format.
hasTextNode(ns, c, f) ==
    \E k \in 1..Len(ns) : /\ ns[k].type = "extended-text"
                          /\ ns[k].text = c
                          /\ ns[k].format = f

\* The nodes that JSON.stringify writes for a text.
resolved(t) ==
    LET ns == processTextWithMarkup(t)
    IN  [i \in 1..Len(ns) |-> stringifyInline(ns[i])]

\* ---------------------------------------------------------------- C1
\* C1: the resolver recognizes markup in one pass over the whole text: every
\* well-formed bold span **x** and italic span *x* outside the links is
\* emitted as a styled Text node (bold: format 1, italic: format 2), wherever
\* it sits, also before a link or between two links.
C1_MarkupRecognizedEverywhere ==
    Returned =>
        \A i \in 0..(Len(text) - 1) :
            /\ ( /\ boldAltAt(text, i, "*")
                 /\ outsideLinks(text, i, boldMatchAt(text, i).length) )
               => hasTextNode(nodes, boldMatchAt(text, i).g1, 1)
            /\ ( /\ italicMatchAt(text, i).found
                 /\ outsideLinks(text, i, italicMatchAt(text, i).length)
                 /\ \A b \in 0..(Len(text) - 1) :
                        boldMatchAt(text, b).found =>
                            (b..(b + boldMatchAt(text, b).length - 1))
                            \cap (i..(i + italicMatchAt(text, i).length - 1)) = {} )
               => hasTextNode(nodes, italicMatchAt(text, i).g1, 2)

\* ---------------------------------------------------------------- C2

RECURSIVE flatText(_)
\* The content of the Text nodes and the label text of the Link nodes, in order.
flatText(ns) ==
    IF ns = <<>> THEN <<>>
    ELSE (IF Head(ns).type = "link" THEN flatText(Head(ns).children)
          ELSE Head(ns).text) \o flatText(Tail(ns))

\* An italic span whose opening asterisk is at index i: its closing index, or -1.
italicCloseAt(t, i) ==
    LET j == indexOf(t, "*", i + 1)
    IN  IF /\ charAt(t, i) = "*"
           /\ (i = 0 \/ charAt(t, i - 1) \in WhiteSpace \cup {"("})
           /\ j >= i + 2
           /\ (j + 1 = Len(t) \/ charAt(t, j + 1) \in ItalicFollow)
        THEN j ELSE -1

\* A code span whose opening delimiter is at index i: its closing index, or -1.
codeCloseAt(t, i) ==
    LET j == indexOf(t, backtick, i + 1)
    IN  IF charAt(t, i) = backtick /\ j >= i + 2 THEN j ELSE -1

RECURSIVE visibleFrom(_, _, _)
\* The text from index i on without the delimiters of its link (when links is
\* TRUE), bold, italic and code spans, found in one left-to-right pass.
visibleFrom(t, i, links) ==
    IF i >= Len(t) THEN <<>>
    ELSE IF links /\ linkMatchAt(t, i).found
    THEN visibleFrom(linkMatchAt(t, i).g1, 0, FALSE)
         \o visibleFrom(t, i + linkMatchAt(t, i).length, links)
    ELSE IF boldMatchAt(t, i).found
    THEN slice(t, i + 2, i + boldMatchAt(t, i).length - 2)
         \o visibleFrom(t, i + boldMatchAt(t, i).length, links)
    ELSE IF italicCloseAt(t, i) # -1
    THEN slice(t, i + 1, italicCloseAt(t, i))
         \o visibleFrom(t, italicCloseAt(t, i) + 1, links)
    ELSE IF codeCloseAt(t, i) # -1
    THEN slice(t, i + 1, codeCloseAt(t, i))
         \o visibleFrom(t, codeCloseAt(t, i) + 1, links)
    ELSE <<charAt(t, i)>> \o visibleFrom(t, i + 1, links)

\* C2: content preservation: the content of the emitted Text nodes and the
\* label text of the Link nodes, concatenated in order, is the source text
\* without the delimiters of its link, bold, italic and code spans.
C2_ContentPreserved == Returned => flatText(nodes) = visibleFrom(text, 0, TRUE)

\* ---------------------------------------------------------------- C3

\* The first lines of the maximal runs of list lines of one kind.
runStarts(ls) ==
    {a \in 1..Len(ls) : /\ kindOf(ls[a]) # "other"
                        /\ (a = 1 \/ kindOf(ls[a - 1]) # kindOf(ls[a]))}

\* The last line of the run that starts at line a.
runEnd(ls, a) ==
    CHOOSE b \in a..Len(ls) :
        /\ \A i \in a..b : kindOf(ls[i]) = kindOf(ls[a])
        /\ (b = Len(ls) \/ kindOf(ls[b + 1]) # kindOf(ls[a]))

\* The first line of the n-th run.
nthRunStart(ls, n) ==
    CHOOSE a \in runStarts(ls) : Cardinality({x \in runStarts(ls) : x < a}) = n - 1

\* The item text of a list line: what follows the marker and the white space.
itemText(line) ==
    LET m == IF kindOf(line) = "bullet" THEN 1
             ELSE skipWhile(line, Digits, 0) + 1
    IN  slice(line, skipWhile(line, WhiteSpace, m), Len(line))

\* The List nodes of the output, in order.
listsOf(children) == SelectSeq(children, LAMBDA n : n.type = "list")

\* C3: list merge: each maximal run of consecutive list lines of one kind
\* yields exactly one List node of that kind, holding one ListItem per line
\* in source order; so a bullet line followed by an ordered line yields two
\* List nodes, the bullet List first.
C3_ListMerge ==
    Done =>
        LET ls    == nonBlankLines(content)
            lists == listsOf(output)
        IN  /\ Len(lists) = Cardinality(runStarts(ls))
            /\ \A n \in 1..Len(lists) :
                   LET a == nthRunStart(ls, n)
                       b == runEnd(ls, a)
                   IN  /\ lists[n].listType = kindOf(ls[a])
                       /\ Len(lists[n].children) = b - a + 1
                       /\ \A i \in a..b :
                              /\ lists[n].children[i - a + 1].type = "listitem"
                              /\ lists[n].children[i - a + 1].children[1].children
                                     = resolved(itemText(ls[i]))

\* C3 witness: two bullet lines then an ordered line gave a bullet List of
\* two items directly followed by an ordered List.
C3_Witness ==
    /\ Done
    /\ Len(output) = 2
    /\ output[1].type = "list" /\ output[1].listType = "bullet"
    /\ Len(output[1].children) = 2
    /\ output[2].type = "list" /\ output[2].listType = "number"

\* ---------------------------------------------------------------- C4

\* C4: list-closing order: when a list is open and the line at hand is no
\* list line, the step appends the open List and then the line's block; when
\* the line is a list line of the other kind, the step appends the open List
\* and starts the new list with the line's item; a list still open after the
\* last line is appended last.
C4_ListClosedFirst ==
    [][ LET open == createListNode(get(currentListItems), currentListType)
            n    == Len(rootChildren)
        IN  /\ (pc = "line" /\ currentListItems # null /\ ~isListLine(trimmedLine))
               => /\ Len(rootChildren') = n + 2
                  /\ SubSeq(rootChildren', 1, n) = rootChildren
                  /\ rootChildren'[n + 1] = open
                  /\ rootChildren'[n + 2].type # "list"
                  /\ currentListItems' = null
            /\ ( /\ pc = "line" /\ currentListItems # null
                 /\ isListLine(trimmedLine)
                 /\ listTypeOf(trimmedLine) # currentListType )
               => /\ rootChildren' = Append(rootChildren, open)
                  /\ currentListType' = listTypeOf(trimmedLine)
                  /\ currentListItems' # null
                  /\ Len(get(currentListItems')) = 1
            /\ (pc = "final" /\ currentListItems # null)
               => rootChildren' = Append(rootChildren, open)
      ]_vars

\* C4 witness: a paragraph line has closed an open list: the List stands
\* right before the paragraph at the end of the root's children.
C4_Witness ==
    /\ pc \in {"line", "final"}
    /\ Len(rootChildren) >= 2
    /\ rootChildren[Len(rootChildren) - 1].type = "list"
    /\ rootChildren[Len(rootChildren)].type = "paragraph"
    /\ currentListItems = null

\* ---------------------------------------------------------------- C5

RECURSIVE linesIn(_, _)
\* The number of lines of the first n blocks.
linesIn(blocks, n) ==
    IF n = 0 THEN 0 ELSE Len(linesOf(blocks[n])) + linesIn(blocks, n - 1)

\* The lines the line loops have been through.
linesDone == linesIn(paragraphBlocks, blockIndex) + lineIndex

\* The characters a scan has still before it.
ahead(t, regexLastIndex) == Len(t) - regexLastIndex

\* A bound on the steps a call has still to take, 0 exactly when it has
\* returned, for the position p of a call on the content c or the text t,
\* with n lines done, the link scan at lr, the bold scan of rt at br and the
\* italic call it that returns to r.  W bounds what one bold iteration costs.
variantOf(p, c, n, t, lr, rt, br, it, r) ==
    LET W == Len(t) + 2
    IN  CASE p = "start"  -> Len(nonBlankLines(c)) + 2
          [] p = "line"   -> Len(nonBlankLines(c)) - n + 1
          [] p = "final"  -> 1
          [] p = "link"   -> 2 * W * (W + 2) + ahead(t, lr)
          [] p = "bold"   -> 2 * W * (ahead(rt, br) + 1)
          [] p = "italic" ->
                 (IF r = "bold" THEN 2 * W * (ahead(rt, br) + 1) + W ELSE 0)
                 + ahead(it.text, it.regexLastIndex) + 1
          [] OTHER -> 0

\* The bound in the current state, and in the next.
variant ==
    variantOf(pc, content, linesDone, text, linkRegex, remainingText,
              boldRegex, italic, ret)
variantNext ==
    variantOf(pc', content', linesDone', text', linkRegex', remainingText',
              boldRegex', italic', ret')

\* The line loops stand at a line of the input.
atALine ==
    /\ blockIndex < Len(paragraphBlocks)
    /\ lineIndex < Len(linesOf(paragraphBlocks[blockIndex + 1]))

\* C5: totality: every call terminates without raising and the converter
\* returns a document with exactly one root node: no step raises, every step
\* lowers a bound on the steps still to take, which is 0 exactly when the
\* call has returned, and a call that has not returned can take a step; every
\* iteration of a scanning loop (link, bold, italic) moves the scan forward.
C5_Total ==
    /\ [](pc # "raised")
    /\ [](Done => DOMAIN result = {"root"} /\ result.root.type = "root")
    /\ [](variant \in Nat /\ (variant = 0 <=> (Done \/ Returned)))
    /\ [](pc = "line" => atALine)
    /\ [][ /\ variantNext < variant
           /\ (pc = "link" /\ linkExec(text, linkRegex).found)
              => (linkRegex' > linkRegex /\ linkRegex' <= Len(text))
           /\ (pc = "bold" /\ boldExec(remainingText, boldRegex).found)
              => (boldRegex' > boldRegex /\ boldRegex' <= Len(remainingText))
           /\ (pc = "italic" /\ italicExec(italic.text, italic.regexLastIndex).found)
              => /\ italic'.regexLastIndex > italic.regexLastIndex
                 /\ italic'.regexLastIndex <= Len(italic.text)
           /\ (pc = "line") => linesDone' = linesDone + 1
         ]_vars

\* C5 witness: a call of the resolver has returned after its link, bold and
\* italic loops each ran an iteration.
C5_Witness ==
    /\ Returned
    /\ \E k \in 1..Len(nodes) : nodes[k].type = "link"
    /\ \E k \in 1..Len(nodes) : nodes[k].format = 1
    /\ \E k \in 1..Len(nodes) : nodes[k].format = 2

\* ---------------------------------------------------------------- C6

\* A line consisting solely of three or more "-".
dashLine(l) == Len(l) >= 3 /\ \A i \in 1..Len(l) : l[i] = "-"

\* C6: every line consisting solely of three or more "-" characters produces
\* a HorizontalRule node, which has no inline children.
C6_DashesAreRules ==
    Done =>
        LET ls == nonBlankLines(content)
        IN  /\ Cardinality({i \in 1..Len(ls) : dashLine(ls[i])})
                 = Cardinality({k \in 1..Len(output) :
                                    output[k].type = "horizontalrule"})
            /\ \A k \in 1..Len(output) :
                   output[k].type = "horizontalrule"
                       => "children" \notin DOMAIN output[k]

\* ---------------------------------------------------------------- C7

\* C7: a code span outside the links is emitted as a Text node whose content
\* is the enclosed text and whose format is a code of its own, none of the
\* plain (0), bold (1) and italic (2) codes.
C7_CodeSpans ==
    Returned =>
        \A i \in 0..(Len(text) - 1) :
            ( /\ codeCloseAt(text, i) # -1
              /\ \A j \in 0..(i - 1) : codeCloseAt(text, j) < i
              /\ outsideLinks(text, i, codeCloseAt(text, i) + 1 - i) )
            => \E k \in 1..Len(nodes) :
                   /\ nodes[k].type = "extended-text"
                   /\ nodes[k].text = slice(text, i + 1, codeCloseAt(text, i))
                   /\ nodes[k].format \notin {0, 1, 2}

\* ---------------------------------------------------------------- C8

\* C8: a text that is one bold span, **x** or __x__, is emitted as one Text
\* node whose content is exactly x and whose format is 1.
C8_BothBoldDelimiters ==
    ( /\ Returned
      /\ Len(text) >= 5
      /\ boldMatchAt(text, 0).found
      /\ boldMatchAt(text, 0).length = Len(text) )
    => nodes = <<createTextNode(slice(text, 2, Len(text) - 2), 1)>>

\* ---------------------------------------------------------------- C9

\* The bold and italic resolution of a label.
labelNodes(label) == processRemaining(label, <<>>, 0)

\* C9: the label of a Link node is the bold and italic resolution of the
\* label text, and holds no Link node.
C9_LabelResolved ==
    Returned =>
        \A i \in 0..(Len(text) - 1) :
            ( /\ linkMatchAt(text, i).found
              /\ \A j \in 0..(i - 1) :
                     linkMatchAt(text, j).found
                         => j + linkMatchAt(text, j).length <= i )
            => \E k \in 1..Len(nodes) :
                   /\ nodes[k].type = "link"
                   /\ nodes[k].url = linkMatchAt(text, i).g2
                   /\ nodes[k].children = labelNodes(linkMatchAt(text, i).g1)
                   /\ \A c \in 1..Len(nodes[k].children) :
                          nodes[k].children[c].type # "link"

\* ---------------------------------------------------------------- C10

\* The line holds image syntax after other text.
imageAfterText(l) ==
    \E i \in 1..(Len(l) - 1) :
        \E j \in (i + 1)..Len(l) : imageMatch(slice(l, i, j)).found

\* C10: a document of one line that holds image syntax after other text, and
\* is no list item, heading or quote, becomes one Paragraph whose inline
\* nodes are plain Text nodes holding the characters of the line.
C10_InlineImageLiteral ==
    ( /\ Done
      /\ Len(nonBlankLines(content)) = 1
      /\ imageAfterText(nonBlankLines(content)[1])
      /\ kindOf(nonBlankLines(content)[1]) = "other"
      /\ ~headingMatch(nonBlankLines(content)[1]).found
      /\ ~startsWith(nonBlankLines(content)[1], ">") )
    => /\ Len(output) = 1
       /\ output[1].type = "paragraph"
       /\ \A c \in 1..Len(output[1].children) :
              /\ output[1].children[c].type = "extended-text"
              /\ output[1].children[c].format = 0
       /\ flatText(output[1].children) = nonBlankLines(content)[1]

\* ---------------------------------------------------------------- C11

\* The Image nodes among the children of a root.
imagesOf(children) ==
    {k \in 1..Len(children) : children[k].type = "image"}

\* C11: every Image node of a returned document has a non-empty src string.
C11_ImageSrcNonEmpty ==
    Done => \A k \in imagesOf(output) : output[k].src # <<>>

\* ---------------------------------------------------------------- C12

\* A node carries the four structural fields with their fixed values; only a
\* text node may have a format other than 0.
structural(n) ==
    /\ {"direction", "indent", "version", "format"} \subseteq DOMAIN n
    /\ n.direction = "ltr"
    /\ n.indent = 0
    /\ n.version = 1
    /\ n.type # "extended-text" => n.format = 0

RECURSIVE structuralBelow(_)
\* A node and every node below it carry the structural fields.
structuralBelow(n) ==
    /\ structural(n)
    /\ "children" \in DOMAIN n =>
           \A i \in 1..Len(n.children) : structuralBelow(n.children[i])

\* C12: the root and every block and inline node of a returned document carry
\* direction "ltr", indent 0, version 1 and a format, which is 0 except on a
\* styled text node.
C12_StructuralFields ==
    Done => structuralBelow(result.root)

\* ---------------------------------------------------------------- C13

\* The characters that open or close a markup span.
MarkupCharacters == {"*", "_", backtick, "[", "]"}

\* A text without any markup character.
plainText(t) == \A i \in 1..Len(t) : t[i] \notin MarkupCharacters

\* C13: for a text that holds no markup, the resolver returns exactly one
\* node, the plain text node (format 0) of the whole text.
C13_PlainTextOneNode ==
    Returned /\ plainText(text) =>
        /\ Len(nodes) = 1
        /\ nodes[1].type = "extended-text"
        /\ nodes[1].format = 0
        /\ nodes[1].text = text

\* ---------------------------------------------------------------- C14

\* The first rule a trimmed line matches, in the order list item, horizontal
\* rule, heading, blockquote, image, paragraph.
ruleOf(line) ==
    IF kindOf(line) # "other" THEN "listitem"
    ELSE IF dashLine(line) THEN "horizontalrule"
    ELSE IF headingMatch(line).found THEN "heading"
    ELSE IF charAt(line, 0) = ">" THEN "quote"
    ELSE IF imageMatch(line).found THEN "image"
    ELSE "paragraph"

\* The blocks of a root that are no lists.
nonLists(children) == SelectSeq(children, LAMBDA b : b.type # "list")

\* C14: the step that handles a line classifies it by exactly one rule, the
\* first it matches: a list item joins the open list and adds no other block;
\* any other line adds exactly one block, of the kind of its rule, and leaves
\* no list open.
C14_FirstRuleWins ==
    [][pc = "line" =>
        IF ruleOf(trimmedLine) = "listitem"
        THEN /\ currentListItems' # null
             /\ Len(get(currentListItems')) >= 1
             /\ nonLists(rootChildren') = nonLists(rootChildren)
        ELSE /\ currentListItems' = null
             /\ Len(nonLists(rootChildren')) = Len(nonLists(rootChildren)) + 1
             /\ rootChildren'[Len(rootChildren')].type = ruleOf(trimmedLine)]_vars

\* ---------------------------------------------------------------- C15

\* The text m occurs in the text t.
contains(t, m) ==
    \E k \in 0..(Len(t) - Len(m)) : slice(t, k, k + Len(m)) = m

RECURSIVE boldStarts(_, _)
\* Where the bold spans of a text start, read from left to right without
\* overlap, from the index given.
boldStarts(t, from) ==
    LET m == boldExec(t, from)
    IN  IF m.found THEN {m.index} \cup boldStarts(t, m.index + m.length)
        ELSE {}

\* A **x** span of the text starts at index i.
boldSpanAt(t, i) == i \in boldStarts(t, 0) /\ charAt(t, i) = "*"

\* The text is **x**, then plain text that ends in white space, then *y*:
\* the positions where the plain text starts and ends, if so.
boldPlainItalic(t) ==
    {<<p, q>> \in (0..Len(t)) \X (0..Len(t)) :
        /\ 5 <= p /\ p < q /\ q + 3 <= Len(t)
        /\ boldAltAt(t, 0, "*")
        /\ boldMatchAt(t, 0).length = p
        /\ plainText(slice(t, p, q))
        /\ charAt(t, q - 1) \in WhiteSpace
        /\ charAt(t, q) = "*"
        /\ charAt(t, Len(t) - 1) = "*"
        /\ plainText(slice(t, q + 1, Len(t) - 1))}

\* C15: a **x** span outside the links is emitted as one bold Text node of
\* content x, and no plain or italic Text node holds the span with its
\* asterisks; a text made of **x**, plain text and a separate *y* yields
\* exactly the bold node of x, the plain node of the text between and the
\* italic node of y, in this order.
C15_BoldBeforeItalic ==
    Returned =>
        /\ \A i \in 0..(Len(text) - 1) :
               ( /\ boldSpanAt(text, i)
                 /\ outsideLinks(text, i, boldMatchAt(text, i).length) )
               => /\ hasTextNode(nodes, boldMatchAt(text, i).g1, 1)
                  /\ \A k \in 1..Len(nodes) :
                         nodes[k].type = "extended-text" =>
                             ~contains(nodes[k].text,
                                       slice(text, i, i + boldMatchAt(text, i).length))
        /\ \A pq \in boldPlainItalic(text) :
               nodes = <<createTextNode(slice(text, 2, pq[1] - 2), 1),
                         createTextNode(slice(text, pq[1], pq[2]), 0),
                         createTextNode(slice(text, pq[2] + 1, Len(text) - 1), 2)>>

\* ---------------------------------------------------------------- C16

\* A node is the plain Text node of the content c.
isPlainTextNode(n, c) ==
    /\ n.type = "extended-text"
    /\ n.format = 0
    /\ n.text = c

\* The text is plain text, one link with a plain label, and plain text.
oneLinkInPlainText(t) ==
    LET m == linkExec(t, 0)
    IN  /\ m.found
        /\ plainText(slice(t, 0, m.index))
        /\ plainText(m.g1)
        /\ plainText(slice(t, m.index + m.length, Len(t)))

\* The nodes expected of such a text: the text before the link if there is
\* any, the link, the text after it if there is any.
linkShape(t, ns) ==
    LET m      == linkExec(t, 0)
        before == slice(t, 0, m.index)
        after  == slice(t, m.index + m.length, Len(t))
        k      == IF before = <<>> THEN 1 ELSE 2
    IN  /\ Len(ns) = k + (IF after = <<>> THEN 0 ELSE 1)
        /\ before # <<>> => isPlainTextNode(ns[1], before)
        /\ ns[k].type = "link"
        /\ ns[k].url = m.g2
        /\ Len(ns[k].children) = 1
        /\ isPlainTextNode(ns[k].children[1], m.g1)
        /\ after # <<>> => isPlainTextNode(ns[k + 1], after)

\* C16: a text of one link [label](url) with plain text before and after it
\* yields the plain Text of the text before, the Link of that url whose only
\* child is the plain Text of the label, and the plain Text of the text after,
\* in this order; an empty text before or after yields no Text node.
C16_LinkExtraction ==
    Returned /\ oneLinkInPlainText(text) => linkShape(text, nodes)

\* A link with text on both sides, one with nothing before it and one with
\* nothing after it have been resolved.
C16_Witness ==
    /\ Returned
    /\ oneLinkInPlainText(text)
    /\ text \in {<<"a", "[", "f", "]", "(", "u", ")", ".">>,
                 <<"[", "f", "]", "(", "u", ")", " ", "a">>,
                 <<"a", " ", "[", "f", "]", "(", "u", ")">>}
    /\ Len(nodes) = (IF text[1] = "[" \/ text[Len(text)] = ")" THEN 2 ELSE 3)

\* ---------------------------------------------------------------- C17

\* The number of "#" characters a line starts with.
hashes(line) == skipWhile(line, {"#"}, 0)

\* The line is 1 to 6 "#", white space and text.
headingLine(line) ==
    /\ hashes(line) \in 1..6
    /\ charAt(line, hashes(line)) \in WhiteSpace
    /\ trim(slice(line, hashes(line), Len(line))) # <<>>

\* The block the step on a line has appended.
appended == rootChildren'[Len(rootChildren')]

\* C17: a line of n "#" (1 <= n <= 6), white space and text yields a Heading
\* of level n whose children are the resolved text; every Heading has a level
\* from 1 to 6; a line that starts with seven or more "#", or with no white
\* space after its "#" run, yields no Heading.
C17_Headings ==
    /\ [](\A k \in 1..Len(rootChildren) :
              rootChildren[k].type = "heading" =>
                  /\ rootChildren[k].tag[1] = "h"
                  /\ rootChildren[k].tag[2] \in 1..6)
    /\ [][pc = "line" /\ hashes(trimmedLine) >= 1 =>
              IF headingLine(trimmedLine)
              THEN /\ appended.type = "heading"
                   /\ appended.tag = <<"h", hashes(trimmedLine)>>
                   /\ appended.children =
                          processTextWithMarkup(
                              trim(slice(trimmedLine, hashes(trimmedLine),
                                         Len(trimmedLine))))
              ELSE appended.type # "heading"]_vars

\* Headings of the levels 1, 2 and 6 have been emitted, the one of level 2
\* with a bold child, and lines of seven "#" and of "#h" have been handled.
C17_Witness ==
    /\ Done
    /\ \/ /\ content = <<"#", "#", " ", "*", "*", "b", "*", "*">>
          /\ output[1].tag = <<"h", 2>>
          /\ output[1].children = <<createTextNode(<<"b">>, 1)>>
       \/ /\ content = <<"#", "#", "#", "#", "#", "#", " ", "h">>
          /\ output[1].tag = <<"h", 6>>
       \/ /\ content = <<"#", "#", "#", "#", "#", "#", "#", " ", "h">>
          /\ output[1].type = "paragraph"
       \/ /\ content = <<"#", "h">>
          /\ output[1].type = "paragraph"

\* ---------------------------------------------------------------- C18

\* The List nodes among the children of a root.
listNodes(children) == SelectSeq(children, LAMBDA b : b.type = "list")

\* C18: every List node holds at least one ListItem: those among the root's
\* children at any moment, and those of the returned document.
C18_ListsNonEmpty ==
    /\ \A k \in 1..Len(listNodes(rootChildren)) :
           /\ Len(listNodes(rootChildren)[k].children) >= 1
           /\ \A i \in 1..Len(listNodes(rootChildren)[k].children) :
                  listNodes(rootChildren)[k].children[i].type = "listitem"
    /\ Done =>
           \A k \in 1..Len(listNodes(output)) :
               Len(listNodes(output)[k].children) >= 1

\* A returned document holds two lists, one closed by a line that is no list
\* item and one closed at the end.
C18_Witness ==
    /\ Done
    /\ Len(output) = 3
    /\ output[1].type = "list"
    /\ output[2].type = "paragraph"
    /\ output[3].type = "list"

\* ---------------------------------------------------------------- C19

\* C19: of two calls on documents of their own, with their line steps
\* interleaved in any order, each returns what it returns when run alone, and
\* a step of one call leaves the other call's position, block sequence and
\* open-list state as they are.
C19_CallsIndependent ==
    /\ [](\A i \in DOMAIN calls :
              calls[i].pc = "done" =>
                  calls[i].result = parseMarkdownToMobiledoc(calls[i].content))
    /\ [][\A i \in DOMAIN calls :
              calls'[i] # calls[i] =>
                  \A j \in DOMAIN calls \ {i} :
                      /\ calls'[j] = calls[j]
                      /\ scans'[j] = scans[j]]_vars

\* Both calls stand between two of their lines, one with a bullet list open
\* and the other with an ordered list open.
C19_Witness ==
    /\ pc = "pair"
    /\ \A i \in Calls : calls[i].pc = "line" /\ calls[i].lineIndex = 1
    /\ scans[1].currentListType = "bullet"
    /\ scans[2].currentListType = "number"
    /\ Len(get(scans[1].currentListItems)) = 1
    /\ Len(get(scans[2].currentListItems)) = 1

\* ---------------------------------------------------------------- C20

\* The front matter line "status: v".
statusLine(v) == s_status \o <<":", " ">> \o v

\* C20: a note whose front matter is the line "status: v", for v one of
\* draft, published and scheduled, is parsed with the status v, and v is the
\* status the preview modal opens with.
C20_StatusPreserved ==
    \A v \in {s_draft, s_published, s_scheduled} :
        \A b \in Bodies :
            note = noteOf(statusLine(v), b) =>
                /\ pc \in {"parsed", "modal"} => frontMatter.status = v
                /\ pc = "modal" => initialOptions.status = v

\* ---------------------------------------------------------------- C21

\* Values that hold a colon: the README's time, a short time, a title.
ColonValues == {isoTime, <<"1", ":", "2">>, <<"a", ":", "b">>}

\* C21: a front matter value that holds a ":" is kept whole: the time of the
\* line "time: v" is v, and the preview modal opens with the instant v; the
\* title of the line "title: v" is v.
C21_ColonValuesKept ==
    pc = "modal" =>
        \A v \in ColonValues :
            \A b \in Bodies :
                /\ note = noteOf(keyLine(s_time, v), b) =>
                       /\ frontMatter.time = v
                       /\ initialOptions.scheduledTime = newDate(v)
                /\ note = noteOf(keyLine(s_title, v), b) =>
                       frontMatter.title = v

\* ---------------------------------------------------------------- C28

\* Every non-blank line of the content is a list item of the kind k.
allOfKind(c, k) ==
    /\ Len(nonBlankLines(c)) >= 1
    /\ \A i \in 1..Len(nonBlankLines(c)) : kindOf(nonBlankLines(c)[i]) = k

\* C28: no two neighbours among the root's children are Lists of the same
\* kind; list lines of one kind with only blank lines between them, in one
\* block or in several, end up in one List.
C28_NoAdjacentSameKind ==
    Done =>
        /\ \A k \in 1..(Len(output) - 1) :
               output[k].type = "list" /\ output[k + 1].type = "list"
                   => output[k].listType # output[k + 1].listType
        /\ \A kind \in {"bullet", "number"} :
               allOfKind(content, kind) =>
                   /\ Len(output) = 1
                   /\ output[1].type = "list"
                   /\ output[1].listType = kind
                   /\ Len(output[1].children) = Len(nonBlankLines(content))

\* Three bullet lines in three blank-line blocks have become one List, and a
\* bullet list is followed by an ordered list.
C28_Witness ==
    /\ Done
    /\ \/ /\ Len(blocksOf(content)) = 3
          /\ allOfKind(content, "bullet")
          /\ Len(output) = 1
          /\ Len(output[1].children) = 3
       \/ /\ Len(output) = 2
          /\ output[1].type = "list" /\ output[1].listType = "bullet"
          /\ output[2].type = "list" /\ output[2].listType = "number"

\* ---------------------------------------------------------------- C29

RECURSIVE elementsOf(_, _)
\* The ListItems and the non-list blocks of a root's children, in order,
\* from the k-th child on.
elementsOf(children, k) ==
    IF k > Len(children) THEN <<>>
    ELSE (IF children[k].type = "list" THEN children[k].children
          ELSE <<children[k]>>) \o elementsOf(children, k + 1)

\* The element a line yields, as JSON.stringify writes it.
elementOfLine(line) ==
    IF isListLine(line) THEN stringifyListItem(createListItemOf(listTextOf(line)))
    ELSE stringifyBlock(blockOf(line))

\* C29: the ListItems and the non-list blocks of the returned document are as
\* many as the non-blank lines of the input, and the i-th of them is the
\* element of the i-th line.
C29_OneElementPerLine ==
    Done =>
        LET ls == nonBlankLines(content)
            es == elementsOf(output, 1)
        IN  /\ Len(es) = Len(ls)
            /\ \A i \in 1..Len(ls) :
                   /\ (es[i].type = "listitem") = (kindOf(ls[i]) # "other")
                   /\ es[i] = elementOfLine(ls[i])

\* A document of a bullet item, an ordered item and a paragraph has been
\* converted into two Lists of one item and a Paragraph.
C29_Witness ==
    /\ Done
    /\ Len(nonBlankLines(content)) = 3
    /\ Len(output) = 3
    /\ output[1].type = "list" /\ Len(output[1].children) = 1
    /\ output[2].type = "list" /\ Len(output[2].children) = 1
    /\ output[3].type = "paragraph"

\* ---------------------------------------------------------------- C22

\* publishToGhost has prepared the post of its call.
Prepared == call # null /\ postData # null

\* The lines of the body publishToGhost is called with.
bodyLines == split(trim(get(call).markdownContent), <<"\n">>)

\* The blocks of a converted body.
blocksIn(lexical) == lexical.root.children

\* C22: when the first line of the body is an image, the post's feature_image
\* is that image's URL and the line is not converted; every other image line
\* is an Image block of the converted body; when the first line is no image
\* the post has no feature_image and the whole body is converted.
C22_FeatureImage ==
    Prepared =>
        LET post == get(postData)
            m == imageMatch(trim(bodyLines[1]))
            rest == SubSeq(bodyLines, 2, Len(bodyLines))
        IN  IF m.found
            THEN /\ "feature_image" \in DOMAIN post
                 /\ post.feature_image = m.g2
                 /\ post.lexical = parseMarkdownToMobiledoc(trim(joinLines(rest, 1)))
                 /\ Len(blocksIn(post.lexical)) = Len(rest)
                 /\ \A i \in 1..Len(rest) :
                        imageMatch(trim(rest[i])).found =>
                            /\ blocksIn(post.lexical)[i].type = "image"
                            /\ blocksIn(post.lexical)[i].src = imageMatch(trim(rest[i])).g2
            ELSE /\ "feature_image" \notin DOMAIN post
                 /\ post.lexical =
                        parseMarkdownToMobiledoc(trim(get(call).markdownContent))

\* ---------------------------------------------------------------- C24

\* The primary request came back with a response, of this kind.
responded == response # null /\ ~get(response).threw
is2xx(r) == r.status >= 200 /\ r.status < 300
tokenError(r) == includes(r.text, s_INVALID_JWT) \/ includes(r.text, s_InvalidToken)

\* C24: publishWithNode is called at most once, and only after the primary
\* request threw or returned a non-2xx response with a token error in its
\* body; any other non-2xx response is returned as a failure with one request
\* sent; after a 2xx response publishWithNode is not called.
C24_FallbackConditions ==
    /\ nodeCalls <= 1
    /\ nodeCalls = 1 =>
           /\ response # null
           /\ \/ get(response).threw
              \/ ~is2xx(get(response)) /\ tokenError(get(response))
    /\ responded /\ ~is2xx(get(response)) /\ ~tokenError(get(response)) =>
           /\ pc = "resolved"
           /\ ~get(outcome).success
           /\ nodeCalls = 0
           /\ Len(requests) = 1
    /\ responded /\ is2xx(get(response)) => nodeCalls = 0

\* ---------------------------------------------------------------- C25

\* C25: a request of publishWithNode goes to the host and the path of the
\* posts endpoint the primary request went to, with the same body.
C25_FallbackEndpoint ==
    \A k \in 1..Len(requests) :
        requests[k].transport = "https" =>
            LET primary == requests[1]
                endpoint == newURL(primary.url)
            IN  /\ primary.transport = "requestUrl"
                /\ ~endpoint.threw
                /\ requests[k].hostname = endpoint.hostname
                /\ requests[k].path = endpoint.pathname \o endpoint.search
                /\ requests[k].body = primary.body

\* ---------------------------------------------------------------- C26

\* The API key has no non-empty id before its first colon or no non-empty
\* secret after it.
badKey(apiKey) ==
    LET parts == split(apiKey, <<":">>)
    IN  Len(parts) < 2 \/ parts[1] = <<>> \/ parts[2] = <<>>

\* C26: with an empty Ghost URL, an empty API key or a key without id or
\* secret, publishToGhost returns a failure with a message and has sent no
\* request and called no fallback; whenever it has returned, its result has a
\* boolean success.
C26_CredentialChecks ==
    /\ /\ pc # "publish"
       /\ settings.ghostUrl = <<>> \/ settings.apiKey = <<>> \/ badKey(settings.apiKey)
       => /\ pc = "resolved"
          /\ outcome # null
          /\ get(outcome).success = FALSE
          /\ "error" \in DOMAIN get(outcome)
          /\ requests = <<>>
          /\ nodeCalls = 0
    /\ pc = "resolved" =>
           /\ outcome # null
           /\ get(outcome).success \in BOOLEAN
    /\ pc \in {"awaiting", "nodeAwaiting"} => outcome = null

\* publishToGhost has returned a failure for a key without a secret, with a
\* Ghost URL set and no request sent.
C26_Witness ==
    /\ pc = "resolved"
    /\ settings.ghostUrl # <<>>
    /\ settings.apiKey = <<"i", ":">>
    /\ get(outcome).success = FALSE
    /\ requests = <<>>

\* ---------------------------------------------------------------- C23

\* The preview modal has been opened.
ModalOpened == pc \in {"modal", "closed", "awaiting", "nodeAwaiting", "resolved", "rejected"}

\* C23: when the preview modal is open or has been open, every path of the
\* note has been handled and no upload is in flight; no step from then on,
\* the click on Publish and what follows it included, starts an upload.
C23_UploadsBeforeModal ==
    /\ [](ModalOpened =>
              /\ modal # [open |-> FALSE]
              /\ ~upload.inFlight
              /\ upload.index > Len(imagePaths))
    /\ [][/\ ModalOpened => upload' = upload
          /\ pc' = "modal" /\ pc # "modal" => ~upload.inFlight /\ modal'.open]_vars

\* Two uploads were started, one gave a URL, and the post of the note has been
\* sent after the click on Publish.
C23_Witness ==
    /\ pc = "awaiting"
    /\ upload.started = 2
    /\ Len(imageMap) = 1
    /\ Len(requests) = 1

\* ---------------------------------------------------------------- C27

\* The post of the k-th request sent.
postOf(k) == requests[k].body.posts[1]

\* C27: in every request sent after a click on Publish, the post has the
\* status chosen in the modal, and its published_at is the chosen scheduled
\* time for scheduled, the current time for published and null for draft,
\* while the options submitted carry a scheduled time in each case.
C27_PublishedAt ==
    submitted # <<>> =>
        \A k \in 1..Len(requests) :
            LET options == submitted[1]
            IN  /\ postOf(k).status = options.status
                /\ "scheduledTime" \in DOMAIN options
                /\ get(call).frontMatter.time = toISOString(options.scheduledTime)
                /\ options.status = s_scheduled =>
                       postOf(k).published_at = toISOString(options.scheduledTime)
                /\ options.status = s_published =>
                       postOf(k).published_at = toISOString(newDate(now))
                /\ options.status = s_draft => postOf(k).published_at = jsNull

\* A draft has been sent with published_at null while the front matter of the
\* call carries a time.
C27_Witness ==
    /\ pc = "awaiting"
    /\ submitted # <<>>
    /\ submitted[1].status = s_draft
    /\ get(call).frontMatter.time = toISOString(newDate(now))
    /\ postOf(1).published_at = jsNull

\* ---------------------------------------------------------------- C30

\* C30: after a click on Publish the options handed to the submit callback
\* hold the title of the title input, publishToGhost is called with it and
\* the post sent has it; after a click on Cancel the submit callback has not
\* been called.
C30_EditedTitle ==
    /\ modal.open = FALSE /\ submitted # <<>> /\ modal.title # title =>
           /\ "title" \in DOMAIN submitted[1]
           /\ submitted[1].title = modal.title
           /\ call # null => get(call).title = modal.title
           /\ \A k \in 1..Len(requests) : postOf(k).title = modal.title
    /\ pc = "closed" => submitted = <<>> /\ call = null /\ requests = <<>>

====
